---- MODULE Spec2Model ----
(***************************************************************************)
(* Code versioning in the runtime: the rejit coordinator (rejit.cpp), the  *)
(* code version manager with its jump-stamp engine (codeversion.cpp) and   *)
(* the tiered compilation coordinator (tieredcompilation.cpp), modelled    *)
(* for one application domain (one CodeVersionManager).                    *)
(***************************************************************************)
EXTENDS Integers, Sequences, FiniteSets, TLC

\* ------------------------------------------------------------------------
\* Bounds of the model
\* ------------------------------------------------------------------------
\* The longest array a request passes.
MaxFunctions == 2
\* The native code version ids a method may use up.
MaxNativeCodeVersionId == 2

\* ------------------------------------------------------------------------
\* Program constants
\* ------------------------------------------------------------------------
JumpStubSize == 5
X86_INSTR_JMP_REL32 == 233
s_GlobalReJitIdInit == 1

\* ------------------------------------------------------------------------
\* Threads
\* ------------------------------------------------------------------------
\* Two threads of the profiler call RequestReJIT and RequestRevert, one
\* managed thread compiles, publishes and calls methods, and one thread of
\* the thread pool runs the work items of the tiered compilation manager.
NoThread == "nobody"
ProfilerThreads == {"p1", "p2"}
MutatorThreads == {"m1"}
BackgroundThread == "bg"
Threads == ProfilerThreads \cup MutatorThreads \cup {BackgroundThread}

\* ------------------------------------------------------------------------
\* The (module, methodDef) pairs a request can name, by what the request's
\* validation finds out about them, and the method descriptors behind them.
\*   "nullmod"   : module id is NULL, or the token is no methodDef token
\*   "unloading" : the module is being unloaded
\*   "dynamic"   : a reflection-emit module
\*   "badtok"    : the token is out of range for the module
\*   "nonIL"     : a loaded method without IL
\*   "U"         : a valid IL method that is not loaded yet (no MethodDesc)
\*   "A"         : a valid, loaded, non-generic IL method
\*   "G"         : a valid generic IL method definition with instantiations
\* ------------------------------------------------------------------------
Items == {"nullmod", "unloading", "dynamic", "badtok", "nonIL", "U", "A", "G"}
ValidKeys == {"U", "A", "G"}
Methods == {"a", "g"}
NoMethod == "none"
\* The methods that are eligible for tiered compilation.
TieredMethods == {"a"}

KeyOfMethod(m) == IF m = "a" THEN "A" ELSE "G"

LookupMethodDef(k) ==
    CASE k = "A" -> "a"
      [] k = "G" -> "gdef"
      [] k = "nonIL" -> "native"
      [] OTHER -> NoMethod

IsIL(pMD) == pMD # "native"

HasClassOrMethodInstantiation(pMD) == pMD = "gdef"

InstantiationsOf(k) == IF k = "G" THEN <<"g">> ELSE <<>>

IsCollectible(m) == m = "g"

\* ------------------------------------------------------------------------
\* HRESULTs
\* ------------------------------------------------------------------------
FAILED(hr) == hr \notin {"S_OK", "S_FALSE"}

\* ------------------------------------------------------------------------
\* Program state
\* ------------------------------------------------------------------------
VARIABLES
    pc,                 \* where each thread is in the operation it runs
    loc,                \* the locals of the operation each thread runs
    s_csGlobalRequest,  \* owner of the process-wide request lock
    m_crstTable,        \* owner of the CodeVersionManager's table lock
    controllerLock,     \* owner of the debugger's controller lock
    threadStoreHolder,  \* the thread that has suspended the execution engine
    s_GlobalReJitId,    \* the last rejit id handed out
    m_ilCodeVersioningStateMap,     \* key -> ILCodeVersioningState
    m_methodDescVersioningStateMap, \* method -> MethodDescVersioningState
    m_pNativeCode,      \* method -> published native code (NullCode when none)
    codeBytes,          \* <<method, jitting thread>> -> first JumpStubSize bytes of the body
    m_methodsToOptimize,                \* queue of native code versions to optimize
    m_countOptimizationThreadsRunning,  \* background work items scheduled or running
    workItems,          \* work items queued to the thread pool and not yet started
    m_isAppDomainShuttingDown,  \* the flag that Shutdown sets
    m_methodsPendingCountingForTier1,   \* TRUE while the tier-1 counting delay is in effect
    m_hasMethodsToOptimizeAfterDelay    \* the timer callback is to run OptimizeMethods

vars == <<pc, loc, s_csGlobalRequest, m_crstTable, controllerLock,
          threadStoreHolder, s_GlobalReJitId, m_ilCodeVersioningStateMap,
          m_methodDescVersioningStateMap, m_pNativeCode, codeBytes,
          m_methodsToOptimize, m_countOptimizationThreadsRunning, workItems,
          m_isAppDomainShuttingDown, m_methodsPendingCountingForTier1,
          m_hasMethodsToOptimizeAfterDelay>>

locks == <<s_csGlobalRequest, m_crstTable, controllerLock, threadStoreHolder>>

tables == <<s_GlobalReJitId, m_ilCodeVersioningStateMap,
            m_methodDescVersioningStateMap>>

code == <<m_pNativeCode, codeBytes>>

delay == <<m_methodsPendingCountingForTier1, m_hasMethodsToOptimizeAfterDelay>>

\* The state of the tiered compilation manager but for the flag that hands
\* the optimization over to the timer callback.
queueing == <<m_methodsToOptimize, m_countOptimizationThreadsRunning, workItems,
              m_isAppDomainShuttingDown, m_methodsPendingCountingForTier1>>

tiered == <<queueing, m_hasMethodsToOptimizeAfterDelay>>

\* ------------------------------------------------------------------------
\* IL code versions
\* ------------------------------------------------------------------------
ILCodeVersionNode(rejitId) == [id |-> rejitId, state |-> "kStateRequested", hasIL |-> FALSE]

NullILCodeVersion == [kind |-> "Unknown", key |-> "none", id |-> 0]

SyntheticILCodeVersion(k) == [kind |-> "Synthetic", key |-> k, id |-> 0]

ExplicitILCodeVersion(k, rejitId) == [kind |-> "Explicit", key |-> k, id |-> rejitId]

NoILCodeVersioningState ==
    [present |-> FALSE, active |-> NullILCodeVersion, nodes |-> <<>>]

ILCodeVersioningState(k) ==
    [present |-> TRUE, active |-> SyntheticILCodeVersion(k), nodes |-> <<>>]

\* The versions of a key in iteration order: the synthetic default version
\* first, then the nodes of the linked list from its head.
GetILCodeVersions(ilMap, k) ==
    LET nodes == ilMap[k].nodes
    IN  <<SyntheticILCodeVersion(k)>> \o
        [i \in 1 .. Len(nodes) |-> ExplicitILCodeVersion(k, nodes[i].id)]

ILNodeIndex(ilMap, v) ==
    CHOOSE i \in 1 .. Len(ilMap[v.key].nodes) : ilMap[v.key].nodes[i].id = v.id

GetRejitState(ilMap, v) ==
    IF v.kind = "Explicit"
    THEN ilMap[v.key].nodes[ILNodeIndex(ilMap, v)].state
    ELSE "kStateActive"

GetNonDefaultILVersionCount(ilMap) ==
    Cardinality({k \in ValidKeys : ilMap[k].present})

GetActiveILCodeVersion(ilMap, k) ==
    IF ~ilMap[k].present THEN SyntheticILCodeVersion(k) ELSE ilMap[k].active

\* oom names the allocation that fails in the step, "none" when none does.
GetOrCreateILCodeVersioningState(ilMap, k, oom) ==
    IF ilMap[k].present THEN [hr |-> "S_OK", ilMap |-> ilMap]
    ELSE IF oom \in {"ilState", "ilStateAdd"} THEN [hr |-> "E_OUTOFMEMORY", ilMap |-> ilMap]
    ELSE [hr |-> "S_OK", ilMap |-> [ilMap EXCEPT ![k] = ILCodeVersioningState(k)]]

LinkILCodeVersionNode(ilMap, k, rejitId) ==
    [hr |-> "S_OK",
     ilMap |-> [ilMap EXCEPT ![k].nodes = <<ILCodeVersionNode(rejitId)>> \o @],
     il |-> ExplicitILCodeVersion(k, rejitId)]

\* A faulty addition, which links a record although it reports the failure.
AddILCodeVersionNodeLinkingOnFailure(st, k, rejitId, oom) ==
    IF FAILED(st.hr)
    THEN [hr |-> st.hr, ilMap |-> st.ilMap, il |-> NullILCodeVersion]
    ELSE [LinkILCodeVersionNode(st.ilMap, k, rejitId) EXCEPT
              !.hr = IF oom = "ilNode" THEN "E_OUTOFMEMORY" ELSE @]

AddILCodeVersionNode(st, k, rejitId, oom) ==
    IF FAILED(st.hr) \/ oom = "ilNode"
    THEN [hr |-> IF FAILED(st.hr) THEN st.hr ELSE "E_OUTOFMEMORY",
          ilMap |-> st.ilMap, il |-> NullILCodeVersion]
    ELSE LinkILCodeVersionNode(st.ilMap, k, rejitId)

AddILCodeVersion(ilMap, k, rejitId, oom) ==
    AddILCodeVersionNode(GetOrCreateILCodeVersioningState(ilMap, k, oom), k, rejitId, oom)

\* ------------------------------------------------------------------------
\* Native code versions and the per-method versioning state
\* ------------------------------------------------------------------------
\* A body of code is named by its method and the thread that compiled it.
NullCode == <<NoMethod, NoThread>>

NullNativeCodeVersion == [kind |-> "Unknown", method |-> NoMethod, id |-> 0]

SyntheticNativeCodeVersion(m) == [kind |-> "Synthetic", method |-> m, id |-> 0]

ExplicitNativeCodeVersion(m, nativeId) == [kind |-> "Explicit", method |-> m, id |-> nativeId]

NativeCodeVersionNode(nativeId, ilId) ==
    [id |-> nativeId, ilId |-> ilId, code |-> NullCode, active |-> FALSE, tier |-> "Tier0"]

ZeroBytes == [i \in 1 .. JumpStubSize |-> 0]

NoMethodDescVersioningState ==
    [present |-> FALSE, jumpStamp |-> "JumpStampNone", m_rgSavedCode |-> ZeroBytes,
     m_nextId |-> 0, defaultActive |-> FALSE, nodes |-> <<>>]

MethodDescVersioningState ==
    [present |-> TRUE, jumpStamp |-> "JumpStampNone", m_rgSavedCode |-> ZeroBytes,
     m_nextId |-> 1, defaultActive |-> TRUE, nodes |-> <<>>]

GetOrCreateMethodDescVersioningState(mdMap, m, oom) ==
    IF mdMap[m].present THEN [hr |-> "S_OK", mdMap |-> mdMap]
    ELSE IF oom \in {"mdState", "mdStateAdd"} THEN [hr |-> "E_OUTOFMEMORY", mdMap |-> mdMap]
    ELSE [hr |-> "S_OK", mdMap |-> [mdMap EXCEPT ![m] = MethodDescVersioningState]]

\* The native code versions of method m whose parent is IL version v, in
\* iteration order: the synthetic default one first when v is null or the
\* default IL version, then the nodes of the method's list that pass the filter.
GetNativeCodeVersions(mdMap, m, v) ==
    LET nodes == mdMap[m].nodes
        pass == SelectSeq(nodes, LAMBDA n : v.kind = "Unknown" \/ n.ilId = v.id)
    IN  (IF v.kind \in {"Unknown", "Synthetic"}
         THEN <<SyntheticNativeCodeVersion(m)>> ELSE <<>>) \o
        [i \in 1 .. Len(pass) |-> ExplicitNativeCodeVersion(m, pass[i].id)]

NativeNodeIndex(mdMap, nv) ==
    CHOOSE i \in 1 .. Len(mdMap[nv.method].nodes) : mdMap[nv.method].nodes[i].id = nv.id

IsActiveChildVersion(mdMap, nv) ==
    IF nv.kind = "Explicit"
    THEN mdMap[nv.method].nodes[NativeNodeIndex(mdMap, nv)].active
    ELSE IF ~mdMap[nv.method].present THEN TRUE
    ELSE mdMap[nv.method].defaultActive

GetActiveNativeCodeVersion(mdMap, v, m) ==
    LET vs == GetNativeCodeVersions(mdMap, m, v)
        act == {i \in 1 .. Len(vs) : IsActiveChildVersion(mdMap, vs[i])}
    IN  IF act = {} THEN NullNativeCodeVersion
        ELSE vs[CHOOSE i \in act : \A j \in act : i <= j]

\* A faulty link, which leaves the new node inactive in every case.
LinkNativeCodeVersionNodeInactive(mdMap, v, m, newId) ==
    [hr |-> "S_OK",
     mdMap |-> [mdMap EXCEPT ![m].nodes = <<NativeCodeVersionNode(newId, v.id)>> \o @],
     native |-> ExplicitNativeCodeVersion(m, newId)]

\* Links a new node at the head of the method's list; the first child of an
\* IL version becomes its active child.
LinkNativeCodeVersionNode(mdMap, v, m, newId) ==
    LET linked == [mdMap EXCEPT ![m].nodes = <<NativeCodeVersionNode(newId, v.id)>> \o @]
    IN  [hr |-> "S_OK",
         mdMap |-> [linked EXCEPT ![m].nodes[1].active =
                       (GetActiveNativeCodeVersion(linked, v, m).kind = "Unknown")],
         native |-> ExplicitNativeCodeVersion(m, newId)]

AddNativeCodeVersionNode(st, v, m, oom) ==
    IF FAILED(st.hr)
    THEN [hr |-> st.hr, mdMap |-> st.mdMap, native |-> NullNativeCodeVersion]
    ELSE IF oom = "nativeNode"
    THEN [hr |-> "E_OUTOFMEMORY", mdMap |-> [st.mdMap EXCEPT ![m].m_nextId = @ + 1],
          native |-> NullNativeCodeVersion]
    ELSE LinkNativeCodeVersionNode([st.mdMap EXCEPT ![m].m_nextId = @ + 1], v, m,
                                   st.mdMap[m].m_nextId)

AddNativeCodeVersion(mdMap, v, m, oom) ==
    AddNativeCodeVersionNode(GetOrCreateMethodDescVersioningState(mdMap, m, oom), v, m, oom)

\* ------------------------------------------------------------------------
\* Code bodies and the jump-stamp engine
\* ------------------------------------------------------------------------
\* The threads that compile bodies of code.
JitThreads == MutatorThreads \cup {BackgroundThread}

CodeAddrs == Methods \X JitThreads

\* The first bytes of a freshly compiled body: never 0, never a jmp rel32.
OriginalCode == <<85, 139, 236, 131, 236>>

\* A code byte the debugger has no activated patch on.
NoPatch == -1

\* The first JumpStubSize bytes of a body: mem is what the code stream
\* holds, opcode[i] is the byte the debugger keeps in its patch for byte i
\* while its breakpoint overlays mem[i], NoPatch when it has none there.
CodeBody(mem) == [mem |-> mem, opcode |-> [i \in 1 .. JumpStubSize |-> NoPatch]]

\* The byte FirstCodeByteAddr points at: the debugger's buffer when the byte
\* is patched, the code stream otherwise.
FirstCodeByte(body, i) == IF body.opcode[i] # NoPatch THEN body.opcode[i] ELSE body.mem[i]

EntryBytes(body) == [i \in 1 .. JumpStubSize |-> FirstCodeByte(body, i)]

\* The writes *FirstCodeByteAddr(pbCode + i, patch) = value[i] for every i.
WriteEntryBytes(body, value) ==
    [mem |-> [i \in 1 .. JumpStubSize |->
                 IF body.opcode[i] # NoPatch THEN body.mem[i] ELSE value[i]],
     opcode |-> [i \in 1 .. JumpStubSize |->
                    IF body.opcode[i] # NoPatch THEN value[i] ELSE NoPatch]]

Byte(n, i) == (n \div (256 ^ i)) % 256

\* rel32 operand of a jump to the stub of the given kind, least byte first.
rel32UsingJumpStub(target) ==
    LET off == IF target = "prestub" THEN 4096 ELSE 8192
    IN  [i \in 1 .. (JumpStubSize - 1) |-> Byte(off, i - 1)]

JumpTo(target) == <<X86_INSTR_JMP_REL32>> \o rel32UsingJumpStub(target)

IS_ALIGNED(pbCode) == pbCode[1] # "g"

HasPatch(body) == \E i \in 1 .. JumpStubSize : body.opcode[i] # NoPatch

\* A faulty update, which does not ask the debugger for its patches when
\* contention is possible.
UpdateJumpStampHelperIgnoringPatches(bytes, pbCode, oldValue, newValue, fContentionPossible, fault) ==
    IF fContentionPossible /\ ~IS_ALIGNED(pbCode)
    THEN [hr |-> "CORPROF_E_RUNTIME_SUSPEND_REQUIRED", bytes |-> bytes]
    ELSE IF fault = "virtualProtect"
    THEN [hr |-> "E_ACCESSDENIED", bytes |-> bytes]
    ELSE IF fContentionPossible
    THEN [hr |-> "S_OK",
          bytes |-> IF bytes[pbCode].mem = oldValue
                    THEN [bytes EXCEPT ![pbCode].mem = newValue] ELSE bytes]
    ELSE [hr |-> "S_OK",
          bytes |-> [bytes EXCEPT ![pbCode] = WriteEntryBytes(@, newValue)]]

\* A faulty update, which asks for a suspension whether or not the caller
\* has suspended the execution engine already.
UpdateJumpStampHelperAskingAgain(bytes, pbCode, oldValue, newValue, fContentionPossible, fault) ==
    IF ~IS_ALIGNED(pbCode) \/ HasPatch(bytes[pbCode])
    THEN [hr |-> "CORPROF_E_RUNTIME_SUSPEND_REQUIRED", bytes |-> bytes]
    ELSE IF fault = "virtualProtect"
    THEN [hr |-> "E_ACCESSDENIED", bytes |-> bytes]
    ELSE IF fContentionPossible
    THEN [hr |-> "S_OK",
          bytes |-> IF bytes[pbCode].mem = oldValue
                    THEN [bytes EXCEPT ![pbCode].mem = newValue] ELSE bytes]
    ELSE [hr |-> "S_OK",
          bytes |-> [bytes EXCEPT ![pbCode] = WriteEntryBytes(@, newValue)]]

\* oldValue and newValue are the values of the code stream (the low
\* JumpStubSize bytes of the INT64 the code reads and builds).
UpdateJumpStampHelper(bytes, pbCode, oldValue, newValue, fContentionPossible, fault) ==
    IF fContentionPossible /\ (~IS_ALIGNED(pbCode) \/ HasPatch(bytes[pbCode]))
    THEN [hr |-> "CORPROF_E_RUNTIME_SUSPEND_REQUIRED", bytes |-> bytes]
    ELSE IF fault = "virtualProtect"
    THEN [hr |-> "E_ACCESSDENIED", bytes |-> bytes]
    ELSE IF fContentionPossible
    THEN [hr |-> "S_OK",
          bytes |-> IF bytes[pbCode].mem = oldValue
                    THEN [bytes EXCEPT ![pbCode].mem = newValue] ELSE bytes]
    ELSE [hr |-> "S_OK",
          bytes |-> [bytes EXCEPT ![pbCode] = WriteEntryBytes(@, newValue)]]

\* A faulty stamp, which saves nothing of what it stamps on.
JumpStampNativeCodeWithoutSaving(mdMap, bytes, published, m, pCode, fault) ==
    LET pbCode == IF pCode = NullCode THEN published[m] ELSE pCode
        upd == UpdateJumpStampHelper(bytes, pbCode, bytes[pbCode].mem, JumpTo("prestub"),
                                     FALSE, fault)
    IN  IF mdMap[m].jumpStamp = "JumpStampToPrestub"
        THEN [hr |-> "S_OK", mdMap |-> mdMap, bytes |-> bytes]
        ELSE IF fault \in {"precode", "jumpStub"}
        THEN [hr |-> "E_OUTOFMEMORY", mdMap |-> mdMap, bytes |-> bytes]
        ELSE IF FAILED(upd.hr)
        THEN [hr |-> upd.hr, mdMap |-> mdMap, bytes |-> bytes]
        ELSE [hr |-> "S_OK",
              mdMap |-> [mdMap EXCEPT ![m].jumpStamp = "JumpStampToPrestub"],
              bytes |-> upd.bytes]

\* A faulty stamp, which saves the bytes of the code stream and not the bytes
\* under the debugger's breakpoints.
JumpStampNativeCodeSavingCodeStream(mdMap, bytes, published, m, pCode, fault) ==
    LET pbCode == IF pCode = NullCode THEN published[m] ELSE pCode
        saved == [mdMap EXCEPT ![m].m_rgSavedCode = bytes[pbCode].mem]
        upd == UpdateJumpStampHelper(bytes, pbCode, bytes[pbCode].mem, JumpTo("prestub"),
                                     FALSE, fault)
    IN  IF mdMap[m].jumpStamp = "JumpStampToPrestub"
        THEN [hr |-> "S_OK", mdMap |-> mdMap, bytes |-> bytes]
        ELSE IF fault \in {"precode", "jumpStub"}
        THEN [hr |-> "E_OUTOFMEMORY", mdMap |-> saved, bytes |-> bytes]
        ELSE IF FAILED(upd.hr)
        THEN [hr |-> upd.hr, mdMap |-> saved, bytes |-> bytes]
        ELSE [hr |-> "S_OK",
              mdMap |-> [saved EXCEPT ![m].jumpStamp = "JumpStampToPrestub"],
              bytes |-> upd.bytes]

\* pCode is the body to stamp, or NullCode for the published body of m.
JumpStampNativeCode(mdMap, bytes, published, m, pCode, fault) ==
    LET pbCode == IF pCode = NullCode THEN published[m] ELSE pCode
        saved == [mdMap EXCEPT ![m].m_rgSavedCode = EntryBytes(bytes[pbCode])]
        upd == UpdateJumpStampHelper(bytes, pbCode, bytes[pbCode].mem, JumpTo("prestub"),
                                     FALSE, fault)
    IN  IF mdMap[m].jumpStamp = "JumpStampToPrestub"
        THEN [hr |-> "S_OK", mdMap |-> mdMap, bytes |-> bytes]
        ELSE IF fault \in {"precode", "jumpStub"}
        THEN [hr |-> "E_OUTOFMEMORY", mdMap |-> saved, bytes |-> bytes]
        ELSE IF FAILED(upd.hr)
        THEN [hr |-> upd.hr, mdMap |-> saved, bytes |-> bytes]
        ELSE [hr |-> "S_OK",
              mdMap |-> [saved EXCEPT ![m].jumpStamp = "JumpStampToPrestub"],
              bytes |-> upd.bytes]

\* A faulty redirection, which marks the method before it knows that the
\* bytes were written.
UpdateJumpTargetMarkingOnFailure(mdMap, bytes, published, m, fEESuspended, fault) ==
    LET pbCode == published[m]
        upd == UpdateJumpStampHelper(bytes, pbCode, bytes[pbCode].mem, JumpTo("rejitted"),
                                     ~fEESuspended, fault)
    IN  IF fault = "jumpStub"
        THEN [hr |-> "E_OUTOFMEMORY", mdMap |-> mdMap, bytes |-> bytes]
        ELSE [hr |-> upd.hr,
              mdMap |-> [mdMap EXCEPT ![m].jumpStamp = "JumpStampToActiveVersion"],
              bytes |-> upd.bytes]

\* Redirects the stamp of the published body of m to the rejitted code.
UpdateJumpTarget(mdMap, bytes, published, m, fEESuspended, fault) ==
    LET pbCode == published[m]
        upd == UpdateJumpStampHelper(bytes, pbCode, bytes[pbCode].mem, JumpTo("rejitted"),
                                     ~fEESuspended, fault)
    IN  IF fault = "jumpStub"
        THEN [hr |-> "E_OUTOFMEMORY", mdMap |-> mdMap, bytes |-> bytes]
        ELSE IF FAILED(upd.hr)
        THEN [hr |-> upd.hr, mdMap |-> mdMap, bytes |-> bytes]
        ELSE [hr |-> "S_OK",
              mdMap |-> [mdMap EXCEPT ![m].jumpStamp = "JumpStampToActiveVersion"],
              bytes |-> upd.bytes]

\* A faulty removal of the stamp, which leaves the method marked as stamped
\* to the prestub.
UndoJumpStampLeavingPrestubState(mdMap, bytes, published, m, fEESuspended, fault) ==
    LET pbCode == published[m]
        upd == UpdateJumpStampHelper(bytes, pbCode, bytes[pbCode].mem,
                                     mdMap[m].m_rgSavedCode, ~fEESuspended, fault)
    IN  IF upd.hr # "S_OK"
        THEN [hr |-> upd.hr, mdMap |-> mdMap, bytes |-> bytes]
        ELSE [hr |-> "S_OK",
              mdMap |-> [mdMap EXCEPT ![m].jumpStamp = "JumpStampToPrestub"],
              bytes |-> upd.bytes]

UndoJumpStampNativeCode(mdMap, bytes, published, m, fEESuspended, fault) ==
    LET pbCode == published[m]
        upd == UpdateJumpStampHelper(bytes, pbCode, bytes[pbCode].mem,
                                     mdMap[m].m_rgSavedCode, ~fEESuspended, fault)
    IN  IF upd.hr # "S_OK"
        THEN [hr |-> upd.hr, mdMap |-> mdMap, bytes |-> bytes]
        ELSE [hr |-> "S_OK",
              mdMap |-> [mdMap EXCEPT ![m].jumpStamp = "JumpStampNone"],
              bytes |-> upd.bytes]

\* ------------------------------------------------------------------------
\* Error records
\* ------------------------------------------------------------------------
CodePublishError(k, m, hrStatus) == [key |-> k, method |-> m, hrStatus |-> hrStatus]

\* The overload that takes the identity of the method.
AddCodePublishError(k, m, hrStatus, errs, oom) ==
    IF oom = "errAppend" THEN [hr |-> "E_OUTOFMEMORY", errs |-> errs]
    ELSE [hr |-> "S_OK", errs |-> Append(errs, CodePublishError(k, m, hrStatus))]

\* The overload that takes a native code version.
AddCodePublishErrorForVersion(nativeCodeVersion, hrStatus, errs) ==
    [hr |-> "E_NOTIMPL", errs |-> errs]

\* ------------------------------------------------------------------------
\* The rejit coordinator's helpers (all run under the table lock)
\* ------------------------------------------------------------------------
JumpStampBatch == [undoMethods |-> <<>>, preStubMethods |-> <<>>]

IsMethodSafeForReJit(m) ==
    IF IsCollectible(m) THEN "CORPROF_E_FUNCTION_IS_COLLECTIBLE" ELSE "S_OK"

\* A faulty Revert, which reports success and marks nothing Reverted: with
\* it a key gets a second live IL version.
RevertWithoutEffect(ilMap, v, batch) ==
    [hr |-> "S_OK", ilMap |-> ilMap, batch |-> batch]

Revert(ilMap, v, batch) ==
    [hr |-> "E_NOTIMPL", ilMap |-> ilMap, batch |-> batch]

\* What follows the revert of the first live version, or the end of the walk.
BindNewILVersion(rv, gid, k, oom) ==
    IF FAILED(rv.hr)
    THEN [hr |-> rv.hr, il |-> NullILCodeVersion, ilMap |-> rv.ilMap, gid |-> gid,
          batch |-> rv.batch]
    ELSE [gid |-> gid + 1, batch |-> rv.batch] @@ AddILCodeVersion(rv.ilMap, k, gid + 1, oom)

\* Walks the versions of the key; the first one that is not Reverted decides.
BindILVersionFrom(ilMap, gid, batch, k, oom, vs, first) ==
    IF first = 0
    THEN BindNewILVersion([hr |-> "S_OK", ilMap |-> ilMap, batch |-> batch], gid, k, oom)
    ELSE IF GetRejitState(ilMap, vs[first]) = "kStateRequested"
    THEN [hr |-> "S_FALSE", il |-> vs[first], ilMap |-> ilMap, gid |-> gid, batch |-> batch]
    ELSE BindNewILVersion(Revert(ilMap, vs[first], batch), gid, k, oom)

FirstLiveVersion(ilMap, vs) ==
    LET live == {i \in 1 .. Len(vs) : GetRejitState(ilMap, vs[i]) # "kStateReverted"}
    IN  IF live = {} THEN 0 ELSE CHOOSE i \in live : \A j \in live : i <= j

BindILVersion(ilMap, gid, batch, k, oom) ==
    BindILVersionFrom(ilMap, gid, batch, k, oom, GetILCodeVersions(ilMap, k),
                      FirstLiveVersion(ilMap, GetILCodeVersions(ilMap, k)))

AppendToBatch(add, batch) ==
    [hr |-> add.hr, mdMap |-> add.mdMap,
     batch |-> [batch EXCEPT !.preStubMethods = Append(@, add.native)]]

MarkForReJit(mdMap, m, v, batch, oom) ==
    IF oom = "batchAppend"
    THEN [hr |-> "E_OUTOFMEMORY", mdMap |-> mdMap, batch |-> batch]
    ELSE AppendToBatch(AddNativeCodeVersion(mdMap, v, m, oom), batch)

WithErrors(r, errs) == [hr |-> r.hr, mdMap |-> r.mdMap, batch |-> r.batch, errs |-> errs]

WithTables(err, mdMap, batch) ==
    [hr |-> err.hr, mdMap |-> mdMap, batch |-> batch, errs |-> err.errs]

\* The body of the loop over the loaded instantiations of a generic method.
MarkInstantiationForReJit(mdMap, published, v, k, pLoadedMD, batch, errs, oom) ==
    IF published[pLoadedMD] = NullCode
    THEN [hr |-> "S_OK", mdMap |-> mdMap, batch |-> batch, errs |-> errs]
    ELSE IF FAILED(IsMethodSafeForReJit(pLoadedMD))
    THEN WithTables(AddCodePublishError(k, pLoadedMD, IsMethodSafeForReJit(pLoadedMD),
                                        errs, oom), mdMap, batch)
    ELSE WithErrors(MarkForReJit(mdMap, pLoadedMD, v, batch, oom), errs)

RECURSIVE MarkAllInstantiationsForReJit(_, _, _, _, _, _, _, _)
RECURSIVE MarkRestOfInstantiations(_, _, _, _, _, _)
MarkRestOfInstantiations(step, published, v, k, insts, oom) ==
    IF FAILED(step.hr) THEN step
    ELSE MarkAllInstantiationsForReJit(step.mdMap, published, v, k, insts,
                                       step.batch, step.errs, oom)

MarkAllInstantiationsForReJit(mdMap, published, v, k, insts, batch, errs, oom) ==
    IF insts = <<>> THEN [hr |-> "S_OK", mdMap |-> mdMap, batch |-> batch, errs |-> errs]
    ELSE MarkRestOfInstantiations(
             MarkInstantiationForReJit(mdMap, published, v, k, Head(insts), batch, errs, oom),
             published, v, k, Tail(insts), oom)

\* Removes the stamps of the undo list, then stamps the preStub list; stamped
\* counts the patches applied.  fault strikes the first patch that can fail.
RECURSIVE BatchUpdateJumpStamps(_, _, _, _, _, _, _, _)
BatchUpdateJumpStamps(mdMap, bytes, published, undo, preStub, errs, patched, fault) ==
    IF undo = <<>> /\ preStub = <<>>
    THEN [hr |-> "S_OK", mdMap |-> mdMap, bytes |-> bytes, errs |-> errs, patched |-> patched]
    ELSE LET cur == IF undo # <<>> THEN Head(undo) ELSE Head(preStub)
             r == IF undo # <<>>
                  THEN UndoJumpStampNativeCode(mdMap, bytes, published, cur.method, TRUE, fault)
                  ELSE JumpStampNativeCode(mdMap, bytes, published, cur.method, NullCode, fault)
             err == AddCodePublishErrorForVersion(cur, r.hr, errs)
             restUndo == IF undo # <<>> THEN Tail(undo) ELSE undo
             restPre == IF undo # <<>> THEN preStub ELSE Tail(preStub)
         IN  IF FAILED(r.hr) /\ FAILED(err.hr)
             THEN [hr |-> err.hr, mdMap |-> r.mdMap, bytes |-> r.bytes, errs |-> err.errs,
                   patched |-> patched]
             ELSE BatchUpdateJumpStamps(r.mdMap, r.bytes, published, restUndo, restPre,
                                        IF FAILED(r.hr) THEN err.errs ELSE errs,
                                        IF FAILED(r.hr) THEN patched
                                        ELSE Append(patched, cur.method),
                                        IF FAILED(r.hr) THEN "none" ELSE fault)

\* ------------------------------------------------------------------------
\* Locals of the operation a thread runs
\* ------------------------------------------------------------------------
OomSites == {"none", "ilState", "ilStateAdd", "ilNode", "batchAppend", "mdState",
             "mdStateAdd", "nativeNode", "errAppend"}

PatchFaults == {"none", "precode", "jumpStub", "virtualProtect"}

\* The arrays of a request are read one element at a time: item is the
\* element at index i, and cFunctions is fixed when the loop finds the end.
NoLocals ==
    [op |-> "none", cFunctions |-> 0, i |-> 0, item |-> "none", hr |-> "S_OK",
     hrStatus |-> "S_OK", oom |-> FALSE, haveBatch |-> FALSE, batch |-> JumpStampBatch,
     errorRecords |-> <<>>, nFailed |-> 0, nReported |-> 0, trace |-> <<>>,
     m |-> NoMethod, pCode |-> NullCode, native |-> NullNativeCodeVersion,
     found |-> "JumpStampNone", il |-> NullILCodeVersion, fEESuspended |-> FALSE,
     fNotify |-> FALSE, swapped |-> FALSE, ret |-> NullCode]

\* A faulty validation, which lets the dynamic modules through.
ValidateReJitItemAcceptingDynamic(item) ==
    CASE item = "nullmod" -> "E_INVALIDARG"
      [] item = "unloading" -> "CORPROF_E_DATAINCOMPLETE"
      [] item = "badtok" -> "E_INVALIDARG"
      [] OTHER -> "S_OK"

\* ------------------------------------------------------------------------
\* RequestReJIT
\* ------------------------------------------------------------------------
\* What the checks at the head of the loop body say about an item.
ValidateReJitItem(item) ==
    CASE item = "nullmod" -> "E_INVALIDARG"
      [] item = "unloading" -> "CORPROF_E_DATAINCOMPLETE"
      [] item = "dynamic" -> "CORPROF_E_MODULE_IS_DYNAMIC"
      [] item = "badtok" -> "E_INVALIDARG"
      [] OTHER -> "S_OK"

\* The block that runs under the table lock for one item: what follows the
\* binding of the IL version.
MarkAfterBind(b, mdMap, published, errs, k, pMD, oom) ==
    IF FAILED(b.hr) \/ pMD = NoMethod
       \/ (~HasClassOrMethodInstantiation(pMD) /\ published[pMD] = NullCode)
    THEN [mdMap |-> mdMap, errs |-> errs] @@ b
    ELSE IF ~HasClassOrMethodInstantiation(pMD)
    THEN MarkForReJit(mdMap, pMD, b.il, b.batch, oom) @@ [errs |-> errs] @@ b
    ELSE MarkAllInstantiationsForReJit(mdMap, published, b.il, k, InstantiationsOf(k),
                                       b.batch, errs, oom) @@ b

BindAndMark(ilMap, mdMap, gid, published, batch, errs, k, oom) ==
    MarkAfterBind(BindILVersion(ilMap, gid, batch, k, oom), mdMap, published, errs, k,
                  LookupMethodDef(k), oom)

\* A faulty test of the work to do, which finds some in every batch.
NeedsSuspendAlways(haveBatch, batch) == TRUE

NeedsSuspend(haveBatch, batch) == haveBatch /\ Len(batch.preStubMethods) # 0

\* A faulty entry, which does not take part in the mutual exclusion.
RequestReJIT_EnterUnlocked(t) ==
    /\ t \in ProfilerThreads /\ pc[t] = "idle"
    /\ s_csGlobalRequest' = t
    /\ loc' = [loc EXCEPT ![t] = [NoLocals EXCEPT !.op = "RequestReJIT"]]
    /\ pc' = [pc EXCEPT ![t] = "rrj_loop"]
    /\ UNCHANGED <<tiered, m_crstTable, controllerLock, threadStoreHolder, tables, code>>

\* The call blocks until it owns the lock that serializes the requests.
RequestReJIT_Enter(t) ==
    /\ t \in ProfilerThreads /\ pc[t] = "idle"
    /\ s_csGlobalRequest = NoThread
    /\ s_csGlobalRequest' = t
    /\ loc' = [loc EXCEPT ![t] = [NoLocals EXCEPT !.op = "RequestReJIT"]]
    /\ pc' = [pc EXCEPT ![t] = "rrj_loop"]
    /\ UNCHANGED <<tiered, m_crstTable, controllerLock, threadStoreHolder, tables, code>>

\* The head of the loop body for the next element of the arrays: the checks,
\* the lookup of the method and the lookup or creation of the batch.
RequestReJIT_Validate(t) ==
    /\ pc[t] = "rrj_loop" /\ loc[t].i < MaxFunctions
    /\ \E item \in Items, oom \in BOOLEAN :
         LET seen == [loc[t] EXCEPT !.item = item, !.trace = Append(@, "validate")]
         IN  IF FAILED(ValidateReJitItem(item))
             THEN /\ pc' = [pc EXCEPT ![t] = "rrj_report"]
                  /\ loc' = [loc EXCEPT ![t] =
                               [seen EXCEPT !.hrStatus = ValidateReJitItem(item),
                                            !.nFailed = @ + 1]]
             ELSE IF ~IsIL(LookupMethodDef(item))
             THEN /\ pc' = pc
                  /\ loc' = [loc EXCEPT ![t] = [seen EXCEPT !.item = "none", !.i = @ + 1]]
             ELSE IF ~loc[t].haveBatch /\ oom
             THEN /\ pc' = [pc EXCEPT ![t] = "rrj_ret"]
                  /\ loc' = [loc EXCEPT ![t] =
                               [seen EXCEPT !.hr = "E_OUTOFMEMORY", !.oom = TRUE]]
             ELSE /\ pc' = [pc EXCEPT ![t] = "rrj_bind"]
                  /\ loc' = [loc EXCEPT ![t] =
                               [seen EXCEPT !.haveBatch = TRUE]]
    /\ UNCHANGED <<tiered, locks, tables, code>>

RequestReJIT_ReportError(t) ==
    /\ pc[t] = "rrj_report"
    /\ loc' = [loc EXCEPT ![t] =
                 [@ EXCEPT !.nReported = @ + 1,
                           !.trace = Append(@, "report"),
                           !.hrStatus = "S_OK",
                           !.item = "none",
                           !.i = @ + 1]]
    /\ pc' = [pc EXCEPT ![t] = "rrj_loop"]
    /\ UNCHANGED <<tiered, locks, tables, code>>

RequestReJIT_TableLock(t) ==
    /\ pc[t] = "rrj_bind"
    /\ m_crstTable = NoThread
    /\ m_crstTable' = t
    /\ pc' = [pc EXCEPT ![t] = "rrj_locked"]
    /\ UNCHANGED <<tiered, loc, s_csGlobalRequest, controllerLock, threadStoreHolder, tables, code>>

BindAndMarkDone(t, r) ==
    /\ m_ilCodeVersioningStateMap' = r.ilMap
    /\ m_methodDescVersioningStateMap' = r.mdMap
    /\ s_GlobalReJitId' = r.gid
    /\ loc' = [loc EXCEPT ![t] =
                 [@ EXCEPT !.hr = r.hr, !.batch = r.batch, !.errorRecords = r.errs,
                           !.oom = @ \/ (r.hr = "E_OUTOFMEMORY"),
                           !.trace = Append(@, "bind"),
                           !.item = IF FAILED(r.hr) THEN @ ELSE "none",
                           !.i = IF FAILED(r.hr) THEN @ ELSE @ + 1]]
    /\ pc' = [pc EXCEPT ![t] = IF FAILED(r.hr) THEN "rrj_ret" ELSE "rrj_loop"]

RequestReJIT_BindAndMark(t) ==
    /\ pc[t] = "rrj_locked"
    /\ \E oom \in OomSites :
         BindAndMarkDone(t, BindAndMark(m_ilCodeVersioningStateMap,
                                        m_methodDescVersioningStateMap, s_GlobalReJitId,
                                        m_pNativeCode, loc[t].batch, loc[t].errorRecords,
                                        loc[t].item, oom))
    /\ m_crstTable' = NoThread
    /\ UNCHANGED <<tiered, s_csGlobalRequest, controllerLock, threadStoreHolder, code>>

\* The work after the loop: one suspension if some batch holds methods to
\* stamp, the batched patches under the table lock, the resumption, and the
\* report of the errors batched up.
RequestReJIT_Batches(t) ==
    /\ pc[t] = "rrj_loop" /\ loc[t].i >= 1
    /\ \E fault \in PatchFaults :
         LET work == NeedsSuspend(loc[t].haveBatch, loc[t].batch)
             r == IF work
                  THEN BatchUpdateJumpStamps(m_methodDescVersioningStateMap, codeBytes,
                                             m_pNativeCode, loc[t].batch.undoMethods,
                                             loc[t].batch.preStubMethods,
                                             loc[t].errorRecords, <<>>, fault)
                  ELSE [hr |-> loc[t].hr, mdMap |-> m_methodDescVersioningStateMap,
                        bytes |-> codeBytes, errs |-> loc[t].errorRecords, patched |-> <<>>]
             told == IF FAILED(r.hr) THEN <<>> ELSE r.errs
         IN  /\ work => /\ threadStoreHolder = NoThread
                        /\ m_crstTable = NoThread
                        /\ controllerLock = NoThread
             /\ m_methodDescVersioningStateMap' = r.mdMap
             /\ codeBytes' = r.bytes
             /\ loc' = [loc EXCEPT ![t] =
                          [@ EXCEPT !.hr = IF FAILED(r.hr) THEN r.hr ELSE "S_OK",
                                    !.cFunctions = loc[t].i,
                                    !.errorRecords = r.errs,
                                    !.nReported = @ + Len(told),
                                    !.trace = @ \o (IF work THEN <<"suspend">> ELSE <<>>)
                                                \o [j \in 1 .. Len(r.patched) |-> "patch"]
                                                \o (IF work THEN <<"resume">> ELSE <<>>)
                                                \o [j \in 1 .. Len(told) |-> "report"]]]
    /\ pc' = [pc EXCEPT ![t] = "rrj_ret"]
    /\ UNCHANGED <<tiered, locks, s_GlobalReJitId, m_ilCodeVersioningStateMap, m_pNativeCode>>

RequestReJIT_Return(t) ==
    /\ pc[t] = "rrj_ret"
    /\ s_csGlobalRequest' = NoThread
    /\ pc' = [pc EXCEPT ![t] = "idle"]
    /\ loc' = [loc EXCEPT ![t] = NoLocals]
    /\ UNCHANGED <<tiered, m_crstTable, controllerLock, threadStoreHolder, tables, code>>

\* ------------------------------------------------------------------------
\* RequestRevert
\* ------------------------------------------------------------------------
RequestRevertByToken(k) == "E_NOTIMPL"

RevertItemStatus(item) ==
    CASE item = "nullmod" -> "E_INVALIDARG"
      [] item = "unloading" -> "CORPROF_E_DATAINCOMPLETE"
      [] item = "dynamic" -> "CORPROF_E_MODULE_IS_DYNAMIC"
      [] OTHER -> RequestRevertByToken(item)

RequestRevert_Enter(t) ==
    /\ t \in ProfilerThreads /\ pc[t] = "idle"
    /\ s_csGlobalRequest = NoThread
    /\ s_csGlobalRequest' = t
    /\ loc' = [loc EXCEPT ![t] = [NoLocals EXCEPT !.op = "RequestRevert"]]
    /\ pc' = [pc EXCEPT ![t] = "rv_suspend"]
    /\ UNCHANGED <<tiered, m_crstTable, controllerLock, threadStoreHolder, tables, code>>

RequestRevert_SuspendEE(t) ==
    /\ pc[t] = "rv_suspend"
    /\ threadStoreHolder = NoThread
    /\ threadStoreHolder' = t
    /\ loc' = [loc EXCEPT ![t].trace = Append(@, "suspend")]
    /\ pc' = [pc EXCEPT ![t] = "rv_loop"]
    /\ UNCHANGED <<tiered, s_csGlobalRequest, m_crstTable, controllerLock, tables, code>>

RequestRevert_Item(t) ==
    /\ pc[t] = "rv_loop" /\ loc[t].i < MaxFunctions
    /\ \E item \in Items :
         loc' = [loc EXCEPT ![t] =
                   [@ EXCEPT !.item = item,
                             !.hrStatus = RevertItemStatus(item),
                             !.i = @ + 1]]
    /\ UNCHANGED <<tiered, pc, locks, tables, code>>

\* A faulty end of the loop, which returns without resuming execution.
RequestRevert_ReturnSuspended(t) ==
    /\ pc[t] = "rv_loop" /\ loc[t].i >= 1
    /\ loc' = [loc EXCEPT ![t].cFunctions = loc[t].i]
    /\ pc' = [pc EXCEPT ![t] = "rv_ret"]
    /\ UNCHANGED <<tiered, locks, tables, code>>

RequestRevert_RestartEE(t) ==
    /\ pc[t] = "rv_loop" /\ loc[t].i >= 1
    /\ threadStoreHolder' = NoThread
    /\ loc' = [loc EXCEPT ![t].trace = Append(@, "resume"), ![t].cFunctions = loc[t].i]
    /\ pc' = [pc EXCEPT ![t] = "rv_ret"]
    /\ UNCHANGED <<tiered, s_csGlobalRequest, m_crstTable, controllerLock, tables, code>>

RequestRevert_Return(t) ==
    /\ pc[t] = "rv_ret"
    /\ s_csGlobalRequest' = NoThread
    /\ pc' = [pc EXCEPT ![t] = "idle"]
    /\ loc' = [loc EXCEPT ![t] = NoLocals]
    /\ UNCHANGED <<tiered, m_crstTable, controllerLock, threadStoreHolder, tables, code>>

\* ------------------------------------------------------------------------
\* Publishing the first body of a method (ReJitPublishMethodHolder)
\* ------------------------------------------------------------------------
\* The last version of the key, in iteration order, that is not Reverted.
VersionToJumpStamp(ilMap, vs) ==
    LET live == {i \in 1 .. Len(vs) : GetRejitState(ilMap, vs[i]) # "kStateReverted"}
    IN  IF live = {} THEN NullILCodeVersion
        ELSE vs[CHOOSE i \in live : \A j \in live : j <= i]

\* DoJumpStampIfNecessary up to its call of JumpStampNativeCode: stamp tells
\* whether that call is made.
\* A faulty decision, which does not look whether the stamp is in place.
JumpStampDecisionWithoutStateCheck(st, m) ==
    IF FAILED(st.hr) THEN [hr |-> st.hr, mdMap |-> st.mdMap, stamp |-> FALSE]
    ELSE [hr |-> IsMethodSafeForReJit(m), mdMap |-> st.mdMap,
          stamp |-> ~FAILED(IsMethodSafeForReJit(m))]

JumpStampDecision(st, m) ==
    IF FAILED(st.hr) THEN [hr |-> st.hr, mdMap |-> st.mdMap, stamp |-> FALSE]
    ELSE IF st.mdMap[m].jumpStamp # "JumpStampNone"
    THEN [hr |-> "S_OK", mdMap |-> st.mdMap, stamp |-> FALSE]
    ELSE [hr |-> IsMethodSafeForReJit(m), mdMap |-> st.mdMap,
          stamp |-> ~FAILED(IsMethodSafeForReJit(m))]

DoJumpStampIfNecessary(ilMap, mdMap, m, oom) ==
    IF VersionToJumpStamp(ilMap, GetILCodeVersions(ilMap, KeyOfMethod(m))).kind = "Unknown"
    THEN [hr |-> "S_OK", mdMap |-> mdMap, stamp |-> FALSE]
    ELSE JumpStampDecision(GetOrCreateMethodDescVersioningState(mdMap, m, oom), m)

\* A thread of callers has compiled the first body of a method and goes to
\* publish it.
Publish_CallBy(t, callers) ==
    /\ t \in callers /\ pc[t] = "idle"
    /\ \E m \in Methods :
         /\ m_pNativeCode[m] = NullCode
         /\ loc' = [loc EXCEPT ![t] = [NoLocals EXCEPT !.op = "Publish", !.m = m,
                                                       !.pCode = <<m, t>>]]
    /\ pc' = [pc EXCEPT ![t] = "pub_enter"]
    /\ UNCHANGED <<tiered, locks, tables, code>>

Publish_Call(t) == Publish_CallBy(t, MutatorThreads)

Publish_EnterLock(t) ==
    /\ pc[t] = "pub_enter"
    /\ m_crstTable = NoThread
    /\ m_crstTable' = t
    /\ pc' = [pc EXCEPT ![t] = "pub_locked"]
    /\ UNCHANGED <<tiered, loc, s_csGlobalRequest, controllerLock, threadStoreHolder,
                   tables, code>>

JumpStampDecided(t, d) ==
    /\ m_methodDescVersioningStateMap' = d.mdMap
    /\ loc' = [loc EXCEPT ![t].hr = d.hr, ![t].oom = (d.hr = "E_OUTOFMEMORY")]
    /\ pc' = [pc EXCEPT ![t] = IF d.stamp THEN "pub_stamp" ELSE "pub_publish"]

Publish_DoJumpStampIfNecessary(t) ==
    /\ pc[t] = "pub_locked"
    /\ \E oom \in {"none", "mdState", "mdStateAdd"} :
         JumpStampDecided(t, DoJumpStampIfNecessary(m_ilCodeVersioningStateMap,
                                                    m_methodDescVersioningStateMap,
                                                    loc[t].m, oom))
    /\ UNCHANGED <<tiered, locks, s_GlobalReJitId, m_ilCodeVersioningStateMap, code>>

Publish_ControllerLock(t) ==
    /\ pc[t] = "pub_stamp"
    /\ controllerLock = NoThread
    /\ controllerLock' = t
    /\ pc' = [pc EXCEPT ![t] = "pub_stamping"]
    /\ UNCHANGED <<tiered, loc, s_csGlobalRequest, m_crstTable, threadStoreHolder,
                   tables, code>>

JumpStamped(t, r) ==
    /\ m_methodDescVersioningStateMap' = r.mdMap
    /\ codeBytes' = r.bytes
    /\ loc' = [loc EXCEPT ![t].hr = r.hr, ![t].oom = (r.hr = "E_OUTOFMEMORY"),
                          ![t].trace = IF r.bytes # codeBytes THEN Append(@, "patch") ELSE @]

\* A faulty stamp, which keeps the controller lock when it is done.
Publish_JumpStampKeepingLock(t) ==
    /\ pc[t] = "pub_stamping"
    /\ \E fault \in PatchFaults :
         JumpStamped(t, JumpStampNativeCode(m_methodDescVersioningStateMap, codeBytes,
                                            m_pNativeCode, loc[t].m, loc[t].pCode, fault))
    /\ pc' = [pc EXCEPT ![t] = "pub_publish"]
    /\ UNCHANGED <<tiered, locks, s_GlobalReJitId, m_ilCodeVersioningStateMap, m_pNativeCode>>

Publish_JumpStampNativeCode(t) ==
    /\ pc[t] = "pub_stamping"
    /\ \E fault \in PatchFaults :
         JumpStamped(t, JumpStampNativeCode(m_methodDescVersioningStateMap, codeBytes,
                                            m_pNativeCode, loc[t].m, loc[t].pCode, fault))
    /\ controllerLock' = NoThread
    /\ pc' = [pc EXCEPT ![t] = "pub_publish"]
    /\ UNCHANGED <<tiered, s_csGlobalRequest, m_crstTable, threadStoreHolder,
                   s_GlobalReJitId, m_ilCodeVersioningStateMap, m_pNativeCode>>

\* The runtime publishes the body while the holder is on the stack.
Publish_SetNativeCode(t) ==
    /\ pc[t] = "pub_publish"
    /\ m_pNativeCode' = IF m_pNativeCode[loc[t].m] = NullCode
                        THEN [m_pNativeCode EXCEPT ![loc[t].m] = loc[t].pCode]
                        ELSE m_pNativeCode
    /\ pc' = [pc EXCEPT ![t] = "pub_leave"]
    /\ UNCHANGED <<tiered, loc, locks, tables, codeBytes>>

\* A faulty end of the holder, which reports the error before it leaves the
\* table lock.
Publish_ReportUnderLock(t) ==
    /\ pc[t] = "pub_leave"
    /\ m_crstTable' = IF FAILED(loc[t].hr) THEN m_crstTable ELSE NoThread
    /\ pc' = [pc EXCEPT ![t] = IF FAILED(loc[t].hr) THEN "pub_report" ELSE "idle"]
    /\ loc' = [loc EXCEPT ![t] = IF FAILED(loc[t].hr) THEN @ ELSE NoLocals]
    /\ UNCHANGED <<tiered, s_csGlobalRequest, controllerLock, threadStoreHolder, tables, code>>

Publish_LeaveLock(t) ==
    /\ pc[t] = "pub_leave"
    /\ m_crstTable' = NoThread
    /\ pc' = [pc EXCEPT ![t] = IF FAILED(loc[t].hr) THEN "pub_report" ELSE "idle"]
    /\ loc' = [loc EXCEPT ![t] = IF FAILED(loc[t].hr) THEN @ ELSE NoLocals]
    /\ UNCHANGED <<tiered, s_csGlobalRequest, controllerLock, threadStoreHolder, tables, code>>

Publish_ReportError(t) ==
    /\ pc[t] = "pub_report"
    /\ pc' = [pc EXCEPT ![t] = "idle"]
    /\ loc' = [loc EXCEPT ![t] = NoLocals]
    /\ UNCHANGED <<tiered, locks, tables, code>>

\* ------------------------------------------------------------------------
\* DoReJitIfNecessary (called by the prestub)
\* ------------------------------------------------------------------------
\* The checks made without a lock: when the method has no body yet, or no
\* IL version was ever added in the domain, the call returns NULL at once;
\* otherwise it goes on to DoReJitIfNecessaryWorker.
DoReJitIfNecessary(t) ==
    /\ t \in MutatorThreads /\ pc[t] = "idle"
    /\ \E m \in Methods :
         IF m_pNativeCode[m] = NullCode
            \/ GetNonDefaultILVersionCount(m_ilCodeVersioningStateMap) = 0
         THEN UNCHANGED <<pc, loc>>
         ELSE /\ pc' = [pc EXCEPT ![t] = "drj_worker"]
              /\ loc' = [loc EXCEPT ![t] = [NoLocals EXCEPT !.op = "DoReJitIfNecessary",
                                                            !.m = m]]
    /\ UNCHANGED <<tiered, locks, tables, code>>

\* ------------------------------------------------------------------------
\* Tiered compilation: promotion of a method to tier 1
\* ------------------------------------------------------------------------
GetOptimizationTier(mdMap, nv) ==
    IF nv.kind = "Explicit"
    THEN mdMap[nv.method].nodes[NativeNodeIndex(mdMap, nv)].tier
    ELSE "Tier0"

SetOptimizationTier(mdMap, nv, tier) ==
    [mdMap EXCEPT ![nv.method].nodes[NativeNodeIndex(mdMap, nv)].tier = tier]

\* A faulty loop, which finds no Tier-1 version.
AlreadyPromotedNeverFound(mdMap, vs) == FALSE

\* The loop of AsyncPromoteMethodToTier1 over the native versions of v.
AlreadyPromoted(mdMap, vs) ==
    \E i \in 1 .. Len(vs) : GetOptimizationTier(mdMap, vs[i]) = "Tier1"

\* The method has been called often enough: the thread takes the table lock.
AsyncPromote_TableLockFor(t, callers, methods) ==
    /\ t \in callers /\ pc[t] = "idle"
    /\ m_crstTable = NoThread
    /\ \E m \in methods :
         /\ m_pNativeCode[m] # NullCode
         /\ loc' = [loc EXCEPT ![t] = [NoLocals EXCEPT !.op = "AsyncPromote", !.m = m]]
    /\ m_crstTable' = t
    /\ pc' = [pc EXCEPT ![t] = "ap_locked"]
    /\ UNCHANGED <<tiered, s_csGlobalRequest, controllerLock, threadStoreHolder, tables, code>>

AsyncPromote_TableLockBy(t, callers) == AsyncPromote_TableLockFor(t, callers, TieredMethods)

AsyncPromote_TableLock(t) == AsyncPromote_TableLockBy(t, MutatorThreads)

Tier1VersionAdded(t, r) ==
    /\ m_methodDescVersioningStateMap' =
           IF FAILED(r.hr) THEN r.mdMap ELSE SetOptimizationTier(r.mdMap, r.native, "Tier1")
    /\ loc' = [loc EXCEPT ![t] = IF FAILED(r.hr) THEN NoLocals
                                 ELSE [@ EXCEPT !.native = r.native]]
    /\ pc' = [pc EXCEPT ![t] = IF FAILED(r.hr) THEN "idle" ELSE "ap_enqueue"]

AsyncPromote_AddVersion(t) ==
    /\ pc[t] = "ap_locked"
    /\ IF AlreadyPromoted(m_methodDescVersioningStateMap,
                          GetNativeCodeVersions(m_methodDescVersioningStateMap, loc[t].m,
                              GetActiveILCodeVersion(m_ilCodeVersioningStateMap,
                                                     KeyOfMethod(loc[t].m))))
       THEN /\ pc' = [pc EXCEPT ![t] = "idle"]
            /\ loc' = [loc EXCEPT ![t] = NoLocals]
            /\ UNCHANGED m_methodDescVersioningStateMap
       ELSE \E oom \in {"none", "mdState", "mdStateAdd", "nativeNode"} :
              /\ oom = "nativeNode" =>
                     m_methodDescVersioningStateMap[loc[t].m].m_nextId < MaxNativeCodeVersionId
              /\ Tier1VersionAdded(t, AddNativeCodeVersion(m_methodDescVersioningStateMap,
                                          GetActiveILCodeVersion(m_ilCodeVersioningStateMap,
                                                                 KeyOfMethod(loc[t].m)),
                                          loc[t].m, oom))
    /\ m_crstTable' = NoThread
    /\ UNCHANGED <<tiered, s_csGlobalRequest, controllerLock, threadStoreHolder,
                   s_GlobalReJitId, m_ilCodeVersioningStateMap, code>>

\* The list element is allocated outside the spin lock; without it nothing
\* is inserted.
AsyncPromote_Enqueue(t) ==
    /\ pc[t] = "ap_enqueue"
    /\ \E allocated \in BOOLEAN :
         m_methodsToOptimize' = IF allocated THEN Append(m_methodsToOptimize, loc[t].native)
                                ELSE m_methodsToOptimize
    /\ pc' = [pc EXCEPT ![t] = "ap_enroll"]
    /\ UNCHANGED <<delay, loc, locks, tables, code, m_countOptimizationThreadsRunning,
                   workItems, m_isAppDomainShuttingDown>>

\* A faulty enrolment, which does not look at the count of workers.
EnrollOptimizeThreadWithoutThrottle(t) ==
    /\ pc[t] = "ap_enroll"
    /\ IF ~m_isAppDomainShuttingDown /\ m_methodsToOptimize # <<>>
       THEN /\ m_countOptimizationThreadsRunning' = m_countOptimizationThreadsRunning + 1
            /\ pc' = [pc EXCEPT ![t] = "async"]
            /\ loc' = loc
       ELSE /\ m_countOptimizationThreadsRunning' = m_countOptimizationThreadsRunning
            /\ pc' = [pc EXCEPT ![t] = "idle"]
            /\ loc' = [loc EXCEPT ![t] = NoLocals]
    /\ UNCHANGED <<delay, locks, tables, code, m_methodsToOptimize, workItems,
                   m_isAppDomainShuttingDown>>

\* The block of EnrollOptimizeThreadIfNeeded under the spin lock.
EnrollOptimizeThreadIfNeeded(t) ==
    /\ pc[t] = "ap_enroll"
    /\ IF /\ m_countOptimizationThreadsRunning = 0
          /\ ~m_isAppDomainShuttingDown
          /\ m_methodsToOptimize # <<>>
       THEN /\ m_countOptimizationThreadsRunning' = m_countOptimizationThreadsRunning + 1
            /\ pc' = [pc EXCEPT ![t] = "async"]
            /\ loc' = loc
       ELSE /\ m_countOptimizationThreadsRunning' = m_countOptimizationThreadsRunning
            /\ pc' = [pc EXCEPT ![t] = "idle"]
            /\ loc' = [loc EXCEPT ![t] = NoLocals]
    /\ UNCHANGED <<delay, locks, tables, code, m_methodsToOptimize, workItems,
                   m_isAppDomainShuttingDown>>

\* The same without the note for the timer callback: the count stays taken
\* and nothing is left to run the optimization.
EnrollOptimizeThread_DelayWithoutNote(t) ==
    /\ pc[t] = "async" /\ loc[t].op = "AsyncPromote"
    /\ m_methodsPendingCountingForTier1
    /\ pc' = [pc EXCEPT ![t] = "idle"]
    /\ loc' = [loc EXCEPT ![t] = NoLocals]
    /\ UNCHANGED <<tiered, locks, tables, code>>

\* The tier-1 counting delay is in effect when EnrollOptimizeThreadIfNeeded
\* has taken the count: it queues nothing and leaves the optimization to
\* the timer callback.
EnrollOptimizeThread_DelayInEffect(t) ==
    /\ pc[t] = "async" /\ loc[t].op = "AsyncPromote"
    /\ m_methodsPendingCountingForTier1
    /\ m_hasMethodsToOptimizeAfterDelay' = TRUE
    /\ pc' = [pc EXCEPT ![t] = "idle"]
    /\ loc' = [loc EXCEPT ![t] = NoLocals]
    /\ UNCHANGED <<queueing, locks, tables, code>>

\* Queues a work item to the thread pool, which may fail.  The caller in
\* EnrollOptimizeThreadIfNeeded has found no delay in effect.
AsyncOptimizeMethods(t) ==
    /\ pc[t] = "async"
    /\ loc[t].op = "AsyncPromote" => ~m_methodsPendingCountingForTier1
    /\ \E queued \in BOOLEAN :
         /\ workItems' = IF queued THEN workItems + 1 ELSE workItems
         /\ pc' = [pc EXCEPT ![t] = IF queued THEN "idle" ELSE "async_failed"]
         /\ loc' = [loc EXCEPT ![t] = IF queued THEN NoLocals ELSE @]
    /\ UNCHANGED <<delay, locks, tables, code, m_methodsToOptimize,
                   m_countOptimizationThreadsRunning, m_isAppDomainShuttingDown>>

DecrementWorkerThreadCount(t) ==
    /\ pc[t] = "async_failed"
    /\ m_countOptimizationThreadsRunning' = m_countOptimizationThreadsRunning - 1
    /\ pc' = [pc EXCEPT ![t] = "idle"]
    /\ loc' = [loc EXCEPT ![t] = NoLocals]
    /\ UNCHANGED <<delay, locks, tables, code, m_methodsToOptimize, workItems,
                   m_isAppDomainShuttingDown>>

\* The domain begins to shut down.
Shutdown ==
    /\ m_isAppDomainShuttingDown' = TRUE
    /\ UNCHANGED <<delay, pc, loc, locks, tables, code, m_methodsToOptimize,
                   m_countOptimizationThreadsRunning, workItems>>

\* ------------------------------------------------------------------------
\* Tiered compilation: the tier-1 call counting delay
\* ------------------------------------------------------------------------
\* The thread of the pool that runs the callback of the delay timer.
TimerThread == "p2"

\* A method is called for the first time while no delay is in effect: the
\* list of the methods that wait is made and the timer is started, under
\* the lock of the delay.
TryInitiateTier1CountingDelay ==
    /\ ~m_methodsPendingCountingForTier1
    /\ m_methodsPendingCountingForTier1' = TRUE
    /\ UNCHANGED <<pc, loc, locks, tables, code, m_methodsToOptimize,
                   m_countOptimizationThreadsRunning, workItems, m_isAppDomainShuttingDown,
                   m_hasMethodsToOptimizeAfterDelay>>

\* The timer fires and the delay ends: the callback takes the list and the
\* flag under the lock of the delay, and runs OptimizeMethods on its own
\* thread when the flag was set.
ResumeTieredCompilationWork(t) ==
    /\ t = TimerThread /\ pc[t] = "idle"
    /\ m_methodsPendingCountingForTier1
    /\ m_methodsPendingCountingForTier1' = FALSE
    /\ m_hasMethodsToOptimizeAfterDelay' = FALSE
    /\ IF m_hasMethodsToOptimizeAfterDelay
       THEN /\ loc' = [loc EXCEPT ![t] = [NoLocals EXCEPT !.op = "OptimizeMethods"]]
            /\ pc' = [pc EXCEPT ![t] = "opt_loop"]
       ELSE UNCHANGED <<pc, loc>>
    /\ UNCHANGED <<locks, tables, code, m_methodsToOptimize,
                   m_countOptimizationThreadsRunning, workItems, m_isAppDomainShuttingDown>>

\* ------------------------------------------------------------------------
\* Tiered compilation: the background worker
\* ------------------------------------------------------------------------
\* A faulty store, which does not compare.
SetNativeCodeWithoutCompare(mdMap, nv, pCode, pExpected) ==
    [mdMap EXCEPT ![nv.method].nodes[NativeNodeIndex(mdMap, nv)].code = pCode]

SetNativeCodeInterlocked(mdMap, nv, pCode, pExpected) ==
    IF mdMap[nv.method].nodes[NativeNodeIndex(mdMap, nv)].code = pExpected
    THEN [mdMap EXCEPT ![nv.method].nodes[NativeNodeIndex(mdMap, nv)].code = pCode]
    ELSE mdMap

\* The compiler stores the body it made in the version, or fails and
\* stores nothing.
PrepareCode(mdMap, nv, pCode, compiled) ==
    IF compiled THEN SetNativeCodeInterlocked(mdMap, nv, pCode, NullCode) ELSE mdMap

GetILCodeVersionOfNative(mdMap, nv) ==
    IF mdMap[nv.method].nodes[NativeNodeIndex(mdMap, nv)].ilId = 0
    THEN SyntheticILCodeVersion(KeyOfMethod(nv.method))
    ELSE ExplicitILCodeVersion(KeyOfMethod(nv.method),
                               mdMap[nv.method].nodes[NativeNodeIndex(mdMap, nv)].ilId)

SetActiveChildFlag(mdMap, nv, isActive) ==
    IF nv.kind = "Explicit"
    THEN [mdMap EXCEPT ![nv.method].nodes[NativeNodeIndex(mdMap, nv)].active = isActive]
    ELSE [mdMap EXCEPT ![nv.method].defaultActive = isActive]

\* What the update of the published body can answer: it asks for a
\* suspension only when the execution engine is not suspended.
PublishOutcomes(fEESuspended) ==
    {"S_OK", "E_FAIL"} \cup
    (IF fEESuspended THEN {} ELSE {"CORPROF_E_RUNTIME_SUSPEND_REQUIRED"})

PublishNativeCodeVersion(mdMap, nv, fEESuspended, outcome) ==
    [hr |-> outcome, mdMap |-> mdMap]

\* A faulty switch, which leaves the flag of the previous active child set.
SwitchActiveChildKeepingPrevious(mdMap, prevActiveVersion, nv) ==
    SetActiveChildFlag(mdMap, nv, TRUE)

SwitchActiveChild(mdMap, prevActiveVersion, nv) ==
    SetActiveChildFlag(IF prevActiveVersion.kind # "Unknown"
                       THEN SetActiveChildFlag(mdMap, prevActiveVersion, FALSE)
                       ELSE mdMap,
                       nv, TRUE)

SetActiveNativeCodeVersion(ilMap, mdMap, v, nv, fEESuspended, outcome) ==
    IF GetActiveNativeCodeVersion(mdMap, v, nv.method) = nv
    THEN [hr |-> "S_OK", mdMap |-> mdMap]
    ELSE IF GetActiveILCodeVersion(ilMap, v.key) = v
    THEN PublishNativeCodeVersion(
             SwitchActiveChild(mdMap, GetActiveNativeCodeVersion(mdMap, v, nv.method), nv),
             nv, fEESuspended, outcome)
    ELSE [hr |-> "S_OK",
          mdMap |-> SwitchActiveChild(mdMap, GetActiveNativeCodeVersion(mdMap, v, nv.method),
                                      nv)]

\* A thread of the pool starts a work item that was queued: it looks at the
\* flag under the spin lock, and gives up at once when the domain is
\* shutting down.
OptimizeMethodsCallback(t) ==
    /\ t = BackgroundThread /\ pc[t] = "idle"
    /\ workItems > 0
    /\ workItems' = workItems - 1
    /\ IF m_isAppDomainShuttingDown
       THEN /\ m_countOptimizationThreadsRunning' = m_countOptimizationThreadsRunning - 1
            /\ UNCHANGED <<pc, loc>>
       ELSE /\ m_countOptimizationThreadsRunning' = m_countOptimizationThreadsRunning
            /\ loc' = [loc EXCEPT ![t] = [NoLocals EXCEPT !.op = "OptimizeMethods"]]
            /\ pc' = [pc EXCEPT ![t] = "opt_loop"]
    /\ UNCHANGED <<delay, locks, tables, code, m_methodsToOptimize, m_isAppDomainShuttingDown>>

\* A faulty removal, which takes the head of the queue and loses it.
GetNextMethodLosingHead(queue) ==
    [native |-> NullNativeCodeVersion,
     queue |-> IF queue = <<>> THEN queue ELSE Tail(queue)]

\* Removes the head of the queue, if there is one.
GetNextMethodToOptimize(queue) ==
    IF queue = <<>> THEN [native |-> NullNativeCodeVersion, queue |-> queue]
    ELSE [native |-> Head(queue), queue |-> Tail(queue)]

\* A faulty head of the loop, which does not look at the flag.
OptimizeMethods_GetNextIgnoringShutdown(t) ==
    /\ pc[t] = "opt_loop"
    /\ m_methodsToOptimize' = GetNextMethodToOptimize(m_methodsToOptimize).queue
    /\ IF GetNextMethodToOptimize(m_methodsToOptimize).native.kind = "Unknown"
       THEN /\ m_countOptimizationThreadsRunning' = m_countOptimizationThreadsRunning - 1
            /\ loc' = [loc EXCEPT ![t] = NoLocals]
            /\ pc' = [pc EXCEPT ![t] = "idle"]
       ELSE /\ m_countOptimizationThreadsRunning' = m_countOptimizationThreadsRunning
            /\ loc' = [loc EXCEPT
                          ![t].native = GetNextMethodToOptimize(m_methodsToOptimize).native,
                          ![t].hr = "S_OK", ![t].trace = <<>>]
            /\ pc' = [pc EXCEPT ![t] = "opt_compile"]
    /\ UNCHANGED <<delay, locks, tables, code, workItems, m_isAppDomainShuttingDown>>

\* The head of the loop of OptimizeMethods, under the spin lock: the next
\* method is taken from the queue, and then the flag is looked at.
OptimizeMethods_GetNext(t) ==
    /\ pc[t] = "opt_loop"
    /\ m_methodsToOptimize' = GetNextMethodToOptimize(m_methodsToOptimize).queue
    /\ IF \/ GetNextMethodToOptimize(m_methodsToOptimize).native.kind = "Unknown"
          \/ m_isAppDomainShuttingDown
       THEN /\ m_countOptimizationThreadsRunning' = m_countOptimizationThreadsRunning - 1
            /\ loc' = [loc EXCEPT ![t] = NoLocals]
            /\ pc' = [pc EXCEPT ![t] = "idle"]
       ELSE /\ m_countOptimizationThreadsRunning' = m_countOptimizationThreadsRunning
            /\ loc' = [loc EXCEPT
                          ![t].native = GetNextMethodToOptimize(m_methodsToOptimize).native,
                          ![t].hr = "S_OK", ![t].trace = <<>>]
            /\ pc' = [pc EXCEPT ![t] = "opt_compile"]
    /\ UNCHANGED <<delay, locks, tables, code, workItems, m_isAppDomainShuttingDown>>

\* The end of the loop body of OptimizeMethods: while the tier-1 counting
\* delay is in effect the worker stops and leaves the rest to the timer
\* callback; otherwise it goes on, or its time is up and it queues another
\* work item in its place.
OptimizeMethods_Quantum(t) ==
    IF m_methodsPendingCountingForTier1
    THEN /\ m_hasMethodsToOptimizeAfterDelay' = TRUE
         /\ pc' = [pc EXCEPT ![t] = "idle"]
         /\ loc' = [loc EXCEPT ![t] = NoLocals]
    ELSE /\ m_hasMethodsToOptimizeAfterDelay' = m_hasMethodsToOptimizeAfterDelay
         /\ \E expired \in BOOLEAN :
              /\ pc' = [pc EXCEPT ![t] = IF expired THEN "async" ELSE "opt_loop"]
              /\ loc' = [loc EXCEPT ![t] = [NoLocals EXCEPT !.op = "OptimizeMethods"]]

\* The call-out to the compiler, with no lock held.
CompileCodeVersion(t) ==
    /\ pc[t] = "opt_compile"
    /\ \E compiled \in BOOLEAN :
         /\ m_methodDescVersioningStateMap' =
                PrepareCode(m_methodDescVersioningStateMap, loc[t].native,
                            <<loc[t].native.method, t>>, compiled)
         /\ IF compiled
            THEN /\ pc' = [pc EXCEPT ![t] = "act_lock"] /\ loc' = loc
                 /\ m_hasMethodsToOptimizeAfterDelay' = m_hasMethodsToOptimizeAfterDelay
            ELSE OptimizeMethods_Quantum(t)
    /\ UNCHANGED <<queueing, locks, s_GlobalReJitId, m_ilCodeVersioningStateMap, code>>

ActivateCodeVersion_TableLock(t) ==
    /\ pc[t] \in {"act_lock", "act_lock_suspended"}
    /\ m_crstTable = NoThread
    /\ m_crstTable' = t
    /\ pc' = [pc EXCEPT ![t] = IF pc[t] = "act_lock" THEN "act_locked"
                               ELSE "act_locked_suspended"]
    /\ UNCHANGED <<loc, tiered, s_csGlobalRequest, controllerLock, threadStoreHolder,
                   tables, code>>

\* The first attempt, made without suspending the execution engine.
ActivateCodeVersion_SetActive(t) ==
    /\ pc[t] = "act_locked"
    /\ \E outcome \in PublishOutcomes(FALSE) :
         LET r == SetActiveNativeCodeVersion(
                      m_ilCodeVersioningStateMap, m_methodDescVersioningStateMap,
                      GetILCodeVersionOfNative(m_methodDescVersioningStateMap, loc[t].native),
                      loc[t].native, FALSE, outcome)
         IN  /\ m_methodDescVersioningStateMap' = r.mdMap
             /\ IF r.hr = "CORPROF_E_RUNTIME_SUSPEND_REQUIRED"
                THEN /\ pc' = [pc EXCEPT ![t] = "act_suspend"]
                     /\ loc' = [loc EXCEPT ![t].hr = r.hr]
                     /\ m_hasMethodsToOptimizeAfterDelay' = m_hasMethodsToOptimizeAfterDelay
                ELSE OptimizeMethods_Quantum(t)
    /\ m_crstTable' = NoThread
    /\ UNCHANGED <<queueing, s_csGlobalRequest, controllerLock, threadStoreHolder,
                   s_GlobalReJitId, m_ilCodeVersioningStateMap, code>>

ActivateCodeVersion_SuspendEE(t) ==
    /\ pc[t] = "act_suspend"
    /\ threadStoreHolder = NoThread
    /\ threadStoreHolder' = t
    /\ loc' = [loc EXCEPT ![t].trace = Append(@, "suspend")]
    /\ pc' = [pc EXCEPT ![t] = "act_lock_suspended"]
    /\ UNCHANGED <<tiered, s_csGlobalRequest, m_crstTable, controllerLock, tables, code>>

\* The second attempt, made while the execution engine is suspended.
ActivateCodeVersion_SetActiveSuspended(t) ==
    /\ pc[t] = "act_locked_suspended"
    /\ \E outcome \in PublishOutcomes(TRUE) :
         LET r == SetActiveNativeCodeVersion(
                      m_ilCodeVersioningStateMap, m_methodDescVersioningStateMap,
                      GetILCodeVersionOfNative(m_methodDescVersioningStateMap, loc[t].native),
                      loc[t].native, TRUE, outcome)
         IN  /\ m_methodDescVersioningStateMap' = r.mdMap
             /\ loc' = [loc EXCEPT ![t].hr = r.hr]
    /\ m_crstTable' = NoThread
    /\ pc' = [pc EXCEPT ![t] = "act_restart"]
    /\ UNCHANGED <<tiered, s_csGlobalRequest, controllerLock, threadStoreHolder,
                   s_GlobalReJitId, m_ilCodeVersioningStateMap, code>>

ActivateCodeVersion_RestartEE(t) ==
    /\ pc[t] = "act_restart"
    /\ threadStoreHolder' = NoThread
    /\ OptimizeMethods_Quantum(t)
    /\ UNCHANGED <<queueing, s_csGlobalRequest, m_crstTable, controllerLock, tables, code>>

\* ------------------------------------------------------------------------
\* The whole program
\* ------------------------------------------------------------------------
Init ==
    /\ pc = [t \in Threads |-> "idle"]
    /\ loc = [t \in Threads |-> NoLocals]
    /\ s_csGlobalRequest = NoThread
    /\ m_crstTable = NoThread
    /\ controllerLock = NoThread
    /\ threadStoreHolder = NoThread
    /\ s_GlobalReJitId = s_GlobalReJitIdInit
    /\ m_ilCodeVersioningStateMap = [k \in ValidKeys |-> NoILCodeVersioningState]
    /\ m_methodDescVersioningStateMap = [m \in Methods |-> NoMethodDescVersioningState]
    /\ m_pNativeCode = [m \in Methods |-> NullCode]
    /\ codeBytes = [a \in CodeAddrs |-> CodeBody(OriginalCode)]
    /\ m_methodsToOptimize = <<>>
    /\ m_countOptimizationThreadsRunning = 0
    /\ workItems = 0
    /\ m_isAppDomainShuttingDown = FALSE
    /\ m_methodsPendingCountingForTier1 = FALSE
    /\ m_hasMethodsToOptimizeAfterDelay = FALSE

Next ==
    \/ Shutdown
    \/ \E t \in Threads :
        \/ RequestReJIT_Enter(t)
        \/ RequestReJIT_Validate(t)
        \/ RequestReJIT_ReportError(t)
        \/ RequestReJIT_TableLock(t)
        \/ RequestReJIT_BindAndMark(t)
        \/ RequestReJIT_Batches(t)
        \/ RequestReJIT_Return(t)
        \/ RequestRevert_Enter(t)
        \/ RequestRevert_SuspendEE(t)
        \/ RequestRevert_Item(t)
        \/ RequestRevert_RestartEE(t)
        \/ RequestRevert_Return(t)
        \/ Publish_Call(t)
        \/ Publish_EnterLock(t)
        \/ Publish_DoJumpStampIfNecessary(t)
        \/ Publish_ControllerLock(t)
        \/ Publish_JumpStampNativeCode(t)
        \/ Publish_SetNativeCode(t)
        \/ Publish_LeaveLock(t)
        \/ Publish_ReportError(t)
        \/ DoReJitIfNecessary(t)
        \/ AsyncPromote_TableLock(t)
        \/ AsyncPromote_AddVersion(t)
        \/ AsyncPromote_Enqueue(t)
        \/ EnrollOptimizeThreadIfNeeded(t)
        \/ AsyncOptimizeMethods(t)
        \/ DecrementWorkerThreadCount(t)
        \/ OptimizeMethodsCallback(t)
        \/ OptimizeMethods_GetNext(t)
        \/ CompileCodeVersion(t)
        \/ ActivateCodeVersion_TableLock(t)
        \/ ActivateCodeVersion_SetActive(t)
        \/ ActivateCodeVersion_SuspendEE(t)
        \/ ActivateCodeVersion_SetActiveSuspended(t)
        \/ ActivateCodeVersion_RestartEE(t)

Spec == Init /\ [][Next]_vars

\* ------------------------------------------------------------------------
\* The jump-stamp engine on its own: its callers and the debugger
\* ------------------------------------------------------------------------
\* The instruction the debugger writes over a byte that holds a breakpoint.
X86_INSTR_INT3 == 204

\* The bytes of a body the debugger lays breakpoints on.
PatchSites == {1}

\* The number of breakpoints the debugger has bound at a time.
MaxPatches == 1

ActivePatches ==
    {p \in CodeAddrs \X PatchSites : codeBytes[p[1]].opcode[p[2]] # NoPatch}

\* The one thread that calls the engine directly.
EngineCallers == {"p1"}

\* The debugger binds a breakpoint: the patch keeps the byte that was in the
\* code, and the code gets the breakpoint instruction.  The patch table is
\* changed under the controller lock.
Debugger_ActivatePatch ==
    /\ controllerLock = NoThread
    /\ Cardinality(ActivePatches) < MaxPatches
    /\ \E a \in CodeAddrs, i \in PatchSites :
         /\ codeBytes[a].opcode[i] = NoPatch
         /\ codeBytes' = [codeBytes EXCEPT ![a] =
                            [mem |-> [@.mem EXCEPT ![i] = X86_INSTR_INT3],
                             opcode |-> [@.opcode EXCEPT ![i] = codeBytes[a].mem[i]]]]
    /\ UNCHANGED <<pc, loc, tiered, locks, tables, m_pNativeCode>>

\* The debugger unbinds a breakpoint: the byte the patch kept goes back into
\* the code.
Debugger_DeactivatePatch ==
    /\ controllerLock = NoThread
    /\ \E a \in CodeAddrs, i \in PatchSites :
         /\ codeBytes[a].opcode[i] # NoPatch
         /\ codeBytes' = [codeBytes EXCEPT ![a] =
                            [mem |-> [@.mem EXCEPT ![i] = codeBytes[a].opcode[i]],
                             opcode |-> [@.opcode EXCEPT ![i] = NoPatch]]]
    /\ UNCHANGED <<pc, loc, tiered, locks, tables, m_pNativeCode>>

\* A caller of the engine takes the table lock, makes one call, and keeps
\* the result in its locals until it leaves the lock.
EngineCalled(t, m, name, found, r) ==
    /\ m_crstTable' = t
    /\ m_methodDescVersioningStateMap' = r.mdMap
    /\ codeBytes' = r.bytes
    /\ loc' = [loc EXCEPT ![t] = [NoLocals EXCEPT !.op = name, !.m = m, !.hr = r.hr,
                                                  !.found = found]]
    /\ pc' = [pc EXCEPT ![t] = "eng_called"]
    /\ UNCHANGED <<tiered, s_csGlobalRequest, controllerLock, threadStoreHolder,
                   s_GlobalReJitId, m_ilCodeVersioningStateMap, m_pNativeCode>>

EngineIdle(t) ==
    /\ t \in EngineCallers /\ pc[t] = "idle"
    /\ m_crstTable = NoThread /\ controllerLock = NoThread

\* The jump of a stamped method is pointed at the active body.  The callee
\* asserts that the method is stamped to the prestub.
Engine_UpdateJumpTarget(t) ==
    /\ EngineIdle(t)
    /\ \E m \in Methods, fEESuspended \in BOOLEAN, fault \in {"none", "jumpStub", "virtualProtect"} :
         /\ m_pNativeCode[m] # NullCode
         /\ m_methodDescVersioningStateMap[m].jumpStamp = "JumpStampToPrestub"
         /\ EngineCalled(t, m, "UpdateJumpTarget", "JumpStampToPrestub",
                         UpdateJumpTarget(m_methodDescVersioningStateMap, codeBytes,
                                          m_pNativeCode, m, fEESuspended, fault))

\* The stamp of a method is taken away.  The callee asserts that the method
\* is stamped, that the saved code is there and that the code starts with
\* the jump.
Engine_UndoJumpStampNativeCode(t) ==
    /\ EngineIdle(t)
    /\ \E m \in Methods, fEESuspended \in BOOLEAN, fault \in {"none", "virtualProtect"} :
         /\ m_pNativeCode[m] # NullCode
         /\ m_methodDescVersioningStateMap[m].jumpStamp
                \in {"JumpStampToPrestub", "JumpStampToActiveVersion"}
         /\ m_methodDescVersioningStateMap[m].m_rgSavedCode[1] # 0
         /\ FirstCodeByte(codeBytes[m_pNativeCode[m]], 1) = X86_INSTR_JMP_REL32
         /\ EngineCalled(t, m, "UndoJumpStampNativeCode",
                         m_methodDescVersioningStateMap[m].jumpStamp,
                         UndoJumpStampNativeCode(m_methodDescVersioningStateMap, codeBytes,
                                                 m_pNativeCode, m, fEESuspended, fault))

Engine_Return(t) ==
    /\ pc[t] \in {"eng_called", "eng_batched"}
    /\ m_crstTable' = NoThread
    /\ pc' = [pc EXCEPT ![t] = "idle"]
    /\ loc' = [loc EXCEPT ![t] = NoLocals]
    /\ UNCHANGED <<tiered, s_csGlobalRequest, controllerLock, threadStoreHolder,
                   tables, code>>

\* The lists a caller may hand to BatchUpdateJumpStamps: the methods of the
\* first list are stamped and published, the methods of the second have a
\* body and no jump to an active body, and no method is in both.
ListsOf(S) ==
    {<<>>} \cup {<<x>> : x \in S} \cup {<<p[1], p[2]>> : p \in {q \in S \X S : q[1] # q[2]}}

CanUndo(m) ==
    /\ m_pNativeCode[m] # NullCode
    /\ m_methodDescVersioningStateMap[m].jumpStamp
           \in {"JumpStampToPrestub", "JumpStampToActiveVersion"}
    /\ FirstCodeByte(codeBytes[m_pNativeCode[m]], 1) = X86_INSTR_JMP_REL32

CanStamp(m) ==
    /\ m_pNativeCode[m] # NullCode
    /\ m_methodDescVersioningStateMap[m].present
    /\ m_methodDescVersioningStateMap[m].jumpStamp \in {"JumpStampNone", "JumpStampToPrestub"}
    /\ FirstCodeByte(codeBytes[m_pNativeCode[m]], 1) # X86_INSTR_JMP_REL32
           \/ m_methodDescVersioningStateMap[m].jumpStamp = "JumpStampToPrestub"

VersionsOf(methods) == [i \in 1 .. Len(methods) |-> SyntheticNativeCodeVersion(methods[i])]

\* The batch is run by a caller that has suspended the runtime and holds the
\* table lock.
Engine_BatchUpdateJumpStamps(t) ==
    /\ EngineIdle(t)
    /\ threadStoreHolder = NoThread
    /\ \E undo \in ListsOf({m \in Methods : CanUndo(m)}),
          preStub \in ListsOf({m \in Methods : CanStamp(m)}), fault \in PatchFaults :
         /\ undo \o preStub # <<>>
         /\ \A i \in 1 .. Len(undo), j \in 1 .. Len(preStub) : undo[i] # preStub[j]
         /\ LET r == BatchUpdateJumpStamps(m_methodDescVersioningStateMap, codeBytes,
                                           m_pNativeCode, VersionsOf(undo),
                                           VersionsOf(preStub), <<>>, <<>>, fault)
            IN  /\ m_methodDescVersioningStateMap' = r.mdMap
                /\ codeBytes' = r.bytes
                /\ loc' = [loc EXCEPT ![t] =
                             [NoLocals EXCEPT !.op = "BatchUpdateJumpStamps", !.hr = r.hr,
                                              !.batch = [undoMethods |-> undo,
                                                         preStubMethods |-> preStub],
                                              !.errorRecords = r.errs,
                                              !.trace = [i \in 1 .. Len(r.patched) |-> "patch"]]]
    /\ m_crstTable' = t
    /\ pc' = [pc EXCEPT ![t] = "eng_batched"]
    /\ UNCHANGED <<tiered, s_csGlobalRequest, controllerLock, threadStoreHolder,
                   s_GlobalReJitId, m_ilCodeVersioningStateMap, m_pNativeCode>>

StampNext ==
    \/ Debugger_ActivatePatch
    \/ Debugger_DeactivatePatch
    \/ \E t \in Threads :
        \/ Publish_Call(t)
        \/ Publish_EnterLock(t)
        \/ Publish_DoJumpStampIfNecessary(t)
        \/ Publish_ControllerLock(t)
        \/ Publish_JumpStampNativeCode(t)
        \/ Publish_SetNativeCode(t)
        \/ Publish_LeaveLock(t)
        \/ Publish_ReportError(t)
        \/ Engine_UpdateJumpTarget(t)
        \/ Engine_UndoJumpStampNativeCode(t)
        \/ Engine_BatchUpdateJumpStamps(t)
        \/ Engine_Return(t)

StampSpec == Init /\ [][StampNext]_vars

\* ------------------------------------------------------------------------
\* The publication of first bodies on its own, by two compiling threads
\* ------------------------------------------------------------------------
\* Bodies are compiled by two threads, so that both can come to publish the
\* same method.
Publish_CallByJit(t) == Publish_CallBy(t, JitThreads)

PublishRaceNext ==
    \E t \in Threads :
        \/ Publish_CallByJit(t)
        \/ Publish_EnterLock(t)
        \/ Publish_DoJumpStampIfNecessary(t)
        \/ Publish_ControllerLock(t)
        \/ Publish_JumpStampNativeCode(t)
        \/ Publish_SetNativeCode(t)
        \/ Publish_LeaveLock(t)
        \/ Publish_ReportError(t)

PublishRaceSpec == Init /\ [][PublishRaceNext]_vars

\* ------------------------------------------------------------------------
\* Tiered compilation on its own
\* ------------------------------------------------------------------------
\* The threads that run the method and count its calls.
PromotingThreads == MutatorThreads \cup {"p1"}

AsyncPromote_TableLockByAny(t) == AsyncPromote_TableLockBy(t, PromotingThreads)

\* The steps of the thread that promotes and of the background worker.
TieredSteps(t) ==
    \/ AsyncPromote_TableLockByAny(t)
    \/ AsyncPromote_AddVersion(t)
    \/ AsyncPromote_Enqueue(t)
    \/ EnrollOptimizeThreadIfNeeded(t)
    \/ AsyncOptimizeMethods(t)
    \/ OptimizeMethodsCallback(t)
    \/ OptimizeMethods_GetNext(t)
    \/ CompileCodeVersion(t)
    \/ ActivateCodeVersion_TableLock(t)
    \/ ActivateCodeVersion_SetActive(t)
    \/ ActivateCodeVersion_SuspendEE(t)
    \/ ActivateCodeVersion_SetActiveSuspended(t)
    \/ ActivateCodeVersion_RestartEE(t)

TieredNext ==
    \/ Shutdown
    \/ \E t \in Threads :
        \/ Publish_Call(t)
        \/ Publish_EnterLock(t)
        \/ Publish_DoJumpStampIfNecessary(t)
        \/ Publish_ControllerLock(t)
        \/ Publish_JumpStampNativeCode(t)
        \/ Publish_SetNativeCode(t)
        \/ Publish_LeaveLock(t)
        \/ Publish_ReportError(t)
        \/ DecrementWorkerThreadCount(t)
        \/ TieredSteps(t)

TieredSpec == Init /\ [][TieredNext]_vars

\* ------------------------------------------------------------------------
\* The worker of tiered compilation with two methods to promote and the
\* tier-1 call counting delay
\* ------------------------------------------------------------------------
\* Every method of the model is called often enough, so that a promotion
\* can come while the worker is busy with another.
AsyncPromote_TableLockOfAny(t) == AsyncPromote_TableLockFor(t, PromotingThreads, Methods)

WorkerSteps(t) ==
        \/ ResumeTieredCompilationWork(t)
        \/ EnrollOptimizeThread_DelayInEffect(t)
        \/ Publish_Call(t)
        \/ Publish_EnterLock(t)
        \/ Publish_DoJumpStampIfNecessary(t)
        \/ Publish_ControllerLock(t)
        \/ Publish_JumpStampNativeCode(t)
        \/ Publish_SetNativeCode(t)
        \/ Publish_LeaveLock(t)
        \/ Publish_ReportError(t)
        \/ AsyncPromote_TableLockOfAny(t)
        \/ AsyncPromote_AddVersion(t)
        \/ AsyncPromote_Enqueue(t)
        \/ EnrollOptimizeThreadIfNeeded(t)
        \/ AsyncOptimizeMethods(t)
        \/ DecrementWorkerThreadCount(t)
        \/ OptimizeMethodsCallback(t)
        \/ OptimizeMethods_GetNext(t)
        \/ CompileCodeVersion(t)
        \/ ActivateCodeVersion_TableLock(t)
        \/ ActivateCodeVersion_SetActive(t)
        \/ ActivateCodeVersion_SuspendEE(t)
        \/ ActivateCodeVersion_SetActiveSuspended(t)
        \/ ActivateCodeVersion_RestartEE(t)

WorkerNext ==
    \/ Shutdown
    \/ TryInitiateTier1CountingDelay
    \/ \E t \in Threads : WorkerSteps(t)

WorkerSpec == Init /\ [][WorkerNext]_vars

\* The same in a domain that does not shut down, with one thread that calls
\* the methods: it promotes one method while the worker is busy with the
\* other.
AsyncPromote_TableLockOfMutator(t) == AsyncPromote_TableLockFor(t, MutatorThreads, Methods)

WorkerFairSteps(t) ==
    \/ ResumeTieredCompilationWork(t)
    \/ EnrollOptimizeThread_DelayInEffect(t)
    \/ Publish_Call(t)
    \/ Publish_EnterLock(t)
    \/ Publish_DoJumpStampIfNecessary(t)
    \/ Publish_ControllerLock(t)
    \/ Publish_JumpStampNativeCode(t)
    \/ Publish_SetNativeCode(t)
    \/ Publish_LeaveLock(t)
    \/ Publish_ReportError(t)
    \/ AsyncPromote_TableLockOfMutator(t)
    \/ AsyncPromote_AddVersion(t)
    \/ AsyncPromote_Enqueue(t)
    \/ EnrollOptimizeThreadIfNeeded(t)
    \/ AsyncOptimizeMethods(t)
    \/ DecrementWorkerThreadCount(t)
    \/ OptimizeMethodsCallback(t)
    \/ OptimizeMethods_GetNext(t)
    \/ CompileCodeVersion(t)
    \/ ActivateCodeVersion_TableLock(t)
    \/ ActivateCodeVersion_SetActive(t)
    \/ ActivateCodeVersion_SuspendEE(t)
    \/ ActivateCodeVersion_SetActiveSuspended(t)
    \/ ActivateCodeVersion_RestartEE(t)

WorkerFairNext ==
    \/ TryInitiateTier1CountingDelay
    \/ \E t \in Threads : WorkerFairSteps(t)

\* A thread that has begun an operation goes on with it and gets the lock
\* it waits for; the thread pool runs every work item that was queued, and
\* the delay timer fires.
WorkerRunning(t) == pc[t] # "idle" /\ WorkerFairSteps(t)

WorkerFairness ==
    /\ \A t \in JitThreads \cup {TimerThread} : SF_vars(WorkerRunning(t))
    /\ SF_vars(OptimizeMethodsCallback(BackgroundThread))
    /\ SF_vars(ResumeTieredCompilationWork(TimerThread))

WorkerFairSpec == Init /\ [][WorkerFairNext]_vars /\ WorkerFairness

\* Tiered compilation when the compiler and the thread pool do not fail:
\* every work item is queued and every compilation makes a body.
AsyncOptimizeMethods_Queued(t) == AsyncOptimizeMethods(t) /\ pc'[t] # "async_failed"

CompileCodeVersion_Compiled(t) == CompileCodeVersion(t) /\ pc'[t] = "act_lock"

TieredAssumedSteps(t) ==
    \/ Publish_Call(t)
    \/ Publish_EnterLock(t)
    \/ Publish_DoJumpStampIfNecessary(t)
    \/ Publish_ControllerLock(t)
    \/ Publish_JumpStampNativeCode(t)
    \/ Publish_SetNativeCode(t)
    \/ Publish_LeaveLock(t)
    \/ Publish_ReportError(t)
    \/ AsyncPromote_TableLockByAny(t)
    \/ AsyncPromote_AddVersion(t)
    \/ AsyncPromote_Enqueue(t)
    \/ EnrollOptimizeThreadIfNeeded(t)
    \/ AsyncOptimizeMethods_Queued(t)
    \/ OptimizeMethodsCallback(t)
    \/ OptimizeMethods_GetNext(t)
    \/ CompileCodeVersion_Compiled(t)
    \/ ActivateCodeVersion_TableLock(t)
    \/ ActivateCodeVersion_SetActive(t)
    \/ ActivateCodeVersion_SuspendEE(t)
    \/ ActivateCodeVersion_SetActiveSuspended(t)
    \/ ActivateCodeVersion_RestartEE(t)

TieredAssumedNext ==
    \/ Shutdown
    \/ \E t \in Threads : TieredAssumedSteps(t)

\* A thread that has begun an operation goes on with it, and gets the lock
\* it waits for.
TieredRunning(t) == pc[t] # "idle" /\ TieredAssumedSteps(t)

\* The thread pool runs every work item that was queued.
TieredFairness ==
    /\ \A t \in Threads : SF_vars(TieredRunning(t))
    /\ SF_vars(OptimizeMethodsCallback(BackgroundThread))

TieredFairSpec == Init /\ [][TieredAssumedNext]_vars /\ TieredFairness

\* ------------------------------------------------------------------------
\* DoReJit and the code version manager on their own
\* ------------------------------------------------------------------------
\* The number of IL version records of a key.
MaxILVersions == 1

\* The last rejit id that is handed out.
MaxReJitId == 3

\* The body DoReJit compiles on thread t for method m.
RejittedCode(m, t) == <<m, t, "rejit">>

GetNativeCode(mdMap, published, nv) ==
    IF nv.kind = "Explicit"
    THEN mdMap[nv.method].nodes[NativeNodeIndex(mdMap, nv)].code
    ELSE published[nv.method]

SetRejitState(ilMap, v, newState) ==
    [ilMap EXCEPT ![v.key].nodes[ILNodeIndex(ilMap, v)].state = newState]

\* The caller holds the table lock for the call and the look at its result.
VersionCalled(t, locals) ==
    /\ m_crstTable' = t
    /\ pc' = [pc EXCEPT ![t] = "eng_called"]
    /\ loc' = [loc EXCEPT ![t] = locals]
    /\ UNCHANGED <<tiered, s_csGlobalRequest, controllerLock, threadStoreHolder, code>>

\* A new IL version is requested for a key, with the next rejit id.  The
\* caller, BindILVersion, comes to the call only when every IL version the
\* key has is reverted.
Call_AddILCodeVersion(t) ==
    /\ EngineIdle(t)
    /\ s_GlobalReJitId < MaxReJitId
    /\ \E m \in Methods, oom \in {"none", "ilState", "ilStateAdd", "ilNode"} :
         /\ Len(m_ilCodeVersioningStateMap[KeyOfMethod(m)].nodes) < MaxILVersions
         /\ \A i \in 1 .. Len(m_ilCodeVersioningStateMap[KeyOfMethod(m)].nodes) :
                m_ilCodeVersioningStateMap[KeyOfMethod(m)].nodes[i].state = "kStateReverted"
         /\ LET r == AddILCodeVersion(m_ilCodeVersioningStateMap, KeyOfMethod(m),
                                      s_GlobalReJitId + 1, oom)
            IN  /\ m_ilCodeVersioningStateMap' = r.ilMap
                /\ VersionCalled(t, [NoLocals EXCEPT !.op = "AddILCodeVersion", !.m = m,
                                                       !.il = r.il, !.hr = r.hr])
    /\ s_GlobalReJitId' = s_GlobalReJitId + 1
    /\ UNCHANGED m_methodDescVersioningStateMap

\* An IL version that was requested has its parameters and becomes active.
Call_SetRejitState(t) ==
    /\ EngineIdle(t)
    /\ \E k \in ValidKeys, i \in 1 .. MaxILVersions :
         /\ i <= Len(m_ilCodeVersioningStateMap[k].nodes)
         /\ m_ilCodeVersioningStateMap[k].nodes[i].state = "kStateRequested"
         /\ m_ilCodeVersioningStateMap' =
                SetRejitState(m_ilCodeVersioningStateMap,
                              ExplicitILCodeVersion(k, m_ilCodeVersioningStateMap[k].nodes[i].id),
                              "kStateActive")
         /\ VersionCalled(t, [NoLocals EXCEPT !.op = "SetRejitState"])
    /\ UNCHANGED <<s_GlobalReJitId, m_methodDescVersioningStateMap>>

\* A native version is added to an IL version of the key of a method.
Call_AddNativeCodeVersion(t) ==
    /\ EngineIdle(t)
    /\ \E m \in Methods, i \in 1 .. MaxILVersions + 1,
          oom \in {"none", "mdState", "mdStateAdd", "nativeNode"} :
         LET vs == GetILCodeVersions(m_ilCodeVersioningStateMap, KeyOfMethod(m))
             r == AddNativeCodeVersion(m_methodDescVersioningStateMap, vs[i], m, oom)
         IN  /\ i <= Len(vs)
             /\ m_methodDescVersioningStateMap[m].m_nextId <= MaxNativeCodeVersionId
             /\ m_methodDescVersioningStateMap' = r.mdMap
             /\ VersionCalled(t, [NoLocals EXCEPT !.op = "AddNativeCodeVersion", !.m = m,
                                                    !.il = vs[i], !.native = r.native,
                                                    !.hr = r.hr])
    /\ UNCHANGED <<s_GlobalReJitId, m_ilCodeVersioningStateMap>>

\* A native version of a method is made the active child of its IL version.
Call_SetActiveNativeCodeVersion(t) ==
    /\ EngineIdle(t)
    /\ \E m \in Methods, i \in 1 .. MaxNativeCodeVersionId + 1, fEESuspended \in BOOLEAN :
         LET nvs == GetNativeCodeVersions(m_methodDescVersioningStateMap, m, NullILCodeVersion)
             v == IF nvs[i].kind = "Explicit"
                  THEN GetILCodeVersionOfNative(m_methodDescVersioningStateMap, nvs[i])
                  ELSE SyntheticILCodeVersion(KeyOfMethod(m))
         IN  /\ i <= Len(nvs)
             /\ \E outcome \in PublishOutcomes(fEESuspended) :
                  LET r == SetActiveNativeCodeVersion(m_ilCodeVersioningStateMap,
                                                      m_methodDescVersioningStateMap,
                                                      v, nvs[i], fEESuspended, outcome)
                  IN  /\ m_methodDescVersioningStateMap' = r.mdMap
                      /\ VersionCalled(t, [NoLocals EXCEPT
                                              !.op = "SetActiveNativeCodeVersion", !.m = m,
                                              !.il = v, !.native = nvs[i], !.hr = r.hr])
    /\ UNCHANGED <<s_GlobalReJitId, m_ilCodeVersioningStateMap>>

\* A thread that has compiled a body for a native version record stores it
\* with the expected value left at its default, NULL; no lock is needed.
Call_SetNativeCodeInterlocked(t) ==
    /\ t \in JitThreads /\ pc[t] = "idle"
    /\ \E m \in Methods, i \in 1 .. MaxNativeCodeVersionId :
         LET nodes == m_methodDescVersioningStateMap[m].nodes
             nv == ExplicitNativeCodeVersion(m, nodes[i].id)
         IN  /\ i <= Len(nodes)
             /\ m_methodDescVersioningStateMap' =
                    SetNativeCodeInterlocked(m_methodDescVersioningStateMap, nv,
                                             RejittedCode(m, t), NullCode)
             /\ loc' = [loc EXCEPT ![t] = [NoLocals EXCEPT
                                             !.op = "SetNativeCodeInterlocked", !.m = m,
                                             !.native = nv, !.pCode = RejittedCode(m, t),
                                             !.swapped = (nodes[i].code = NullCode)]]
    /\ pc' = [pc EXCEPT ![t] = "cas_called"]
    /\ UNCHANGED <<tiered, locks, s_GlobalReJitId, m_ilCodeVersioningStateMap, code>>

SetNativeCodeInterlocked_Return(t) ==
    /\ pc[t] = "cas_called"
    /\ pc' = [pc EXCEPT ![t] = "idle"]
    /\ loc' = [loc EXCEPT ![t] = NoLocals]
    /\ UNCHANGED <<tiered, locks, tables, code>>

VersionNext ==
    \E t \in Threads :
        \/ Call_AddILCodeVersion(t)
        \/ Call_AddNativeCodeVersion(t)
        \/ Call_SetActiveNativeCodeVersion(t)
        \/ Engine_Return(t)

VersionSpec == Init /\ [][VersionNext]_vars

\* The threads that compile race to store their bodies in the records.
InterlockedNext ==
    \E t \in Threads :
        \/ Call_AddNativeCodeVersion(t)
        \/ Engine_Return(t)
        \/ Call_SetNativeCodeInterlocked(t)
        \/ SetNativeCodeInterlocked_Return(t)

InterlockedSpec == Init /\ [][InterlockedNext]_vars

\* The prestub has found an active IL version of a method that is stamped
\* to the prestub: the thread tells the profiler and compiles the body.
DoReJit_Call(t) ==
    /\ t \in JitThreads /\ pc[t] = "idle"
    /\ \E m \in Methods, i \in 1 .. MaxILVersions + 1 :
         LET vs == GetILCodeVersions(m_ilCodeVersioningStateMap, KeyOfMethod(m))
         IN  /\ i <= Len(vs)
             /\ GetRejitState(m_ilCodeVersioningStateMap, vs[i]) = "kStateActive"
             /\ m_pNativeCode[m] # NullCode
             /\ m_methodDescVersioningStateMap[m].jumpStamp = "JumpStampToPrestub"
             /\ loc' = [loc EXCEPT ![t] = [NoLocals EXCEPT !.op = "DoReJit", !.m = m,
                                                           !.il = vs[i],
                                                           !.pCode = RejittedCode(m, t)]]
    /\ pc' = [pc EXCEPT ![t] = "drj_lock"]
    /\ UNCHANGED <<tiered, locks, tables, code>>

\* The head of the loop on its second turn.
DoReJit_SuspendEE(t) ==
    /\ pc[t] = "drj_suspend"
    /\ threadStoreHolder = NoThread
    /\ threadStoreHolder' = t
    /\ loc' = [loc EXCEPT ![t].trace = Append(@, "suspend")]
    /\ pc' = [pc EXCEPT ![t] = "drj_lock"]
    /\ UNCHANGED <<tiered, s_csGlobalRequest, m_crstTable, controllerLock, tables, code>>

DoReJit_TableLock(t) ==
    /\ pc[t] = "drj_lock"
    /\ m_crstTable = NoThread
    /\ m_crstTable' = t
    /\ pc' = [pc EXCEPT ![t] = "drj_locked"]
    /\ UNCHANGED <<loc, tiered, s_csGlobalRequest, controllerLock, threadStoreHolder,
                   tables, code>>

\* The end of a turn of the loop: break leaves the loop with hr as it is,
\* continue goes to the next turn with the execution engine to suspend.
DoReJit_LeaveLock(t, mdMap, bytes, hr, again, fNotify, ret) ==
    /\ m_methodDescVersioningStateMap' = mdMap
    /\ codeBytes' = bytes
    /\ m_crstTable' = NoThread
    /\ loc' = [loc EXCEPT ![t].hr = hr, ![t].fEESuspended = @ \/ again,
                          ![t].fNotify = fNotify, ![t].ret = ret]
    /\ pc' = [pc EXCEPT ![t] = IF again THEN "drj_suspend"
                               ELSE IF loc[t].fEESuspended THEN "drj_restart"
                               ELSE "drj_report"]

\* The redirection of the stamp and the storing of the body of the thread.
DoReJit_Retarget(t, mdMap, nv, fault) ==
    LET upd == UpdateJumpTarget(mdMap, codeBytes, m_pNativeCode, loc[t].m,
                                loc[t].fEESuspended, fault)
    IN  IF upd.hr = "CORPROF_E_RUNTIME_SUSPEND_REQUIRED"
        THEN DoReJit_LeaveLock(t, mdMap, codeBytes, upd.hr, TRUE, FALSE, loc[t].ret)
        ELSE IF FAILED(upd.hr)
        THEN DoReJit_LeaveLock(t, mdMap, codeBytes, upd.hr, FALSE, FALSE, loc[t].ret)
        ELSE DoReJit_LeaveLock(t, SetNativeCodeInterlocked(upd.mdMap, nv, loc[t].pCode,
                                                           NullCode),
                               upd.bytes, upd.hr, FALSE, TRUE, loc[t].pCode)

\* A faulty turn, which does not look whether another thread has stored its
\* body in the record of the native version already.
DoReJit_PublishWithoutRecheck(t, mdMap, nv, fault) ==
    IF nv.kind # "Explicit"
    THEN DoReJit_LeaveLock(t, mdMap, codeBytes, loc[t].hr, FALSE, FALSE,
                           GetNativeCode(mdMap, m_pNativeCode, nv))
    ELSE IF GetRejitState(m_ilCodeVersioningStateMap, loc[t].il) = "kStateReverted"
    THEN DoReJit_LeaveLock(t, mdMap, codeBytes, loc[t].hr, FALSE, FALSE,
                           m_pNativeCode[loc[t].m])
    ELSE DoReJit_Retarget(t, mdMap, nv, fault)

\* The turn from the active native version on.
DoReJit_Publish(t, mdMap, nv, fault) ==
    IF GetNativeCode(mdMap, m_pNativeCode, nv) # NullCode
    THEN DoReJit_LeaveLock(t, mdMap, codeBytes, loc[t].hr, FALSE, FALSE,
                           GetNativeCode(mdMap, m_pNativeCode, nv))
    ELSE IF GetRejitState(m_ilCodeVersioningStateMap, loc[t].il) = "kStateReverted"
    THEN DoReJit_LeaveLock(t, mdMap, codeBytes, loc[t].hr, FALSE, FALSE,
                           m_pNativeCode[loc[t].m])
    ELSE DoReJit_Retarget(t, mdMap, nv, fault)

\* One turn of the loop of DoReJit, under the table lock.
DoReJit_UnderLock(t) ==
    /\ pc[t] = "drj_locked"
    /\ controllerLock = NoThread
    /\ \E oom \in {"none", "nativeNode"}, fault \in {"none", "jumpStub", "virtualProtect"} :
         LET active == GetActiveNativeCodeVersion(m_methodDescVersioningStateMap,
                                                  loc[t].il, loc[t].m)
             add == AddNativeCodeVersion(m_methodDescVersioningStateMap, loc[t].il,
                                         loc[t].m, oom)
         IN  IF active.kind # "Unknown"
             THEN oom = "none"
                  /\ DoReJit_Publish(t, m_methodDescVersioningStateMap, active, fault)
             ELSE /\ m_methodDescVersioningStateMap[loc[t].m].m_nextId < MaxNativeCodeVersionId
                  /\ IF FAILED(add.hr)
                     THEN fault = "none"
                          /\ DoReJit_LeaveLock(t, add.mdMap, codeBytes, add.hr, FALSE, FALSE,
                                               loc[t].ret)
                     ELSE DoReJit_Publish(t, add.mdMap, add.native, fault)
    /\ UNCHANGED <<tiered, s_csGlobalRequest, controllerLock, threadStoreHolder,
                   s_GlobalReJitId, m_ilCodeVersioningStateMap, m_pNativeCode>>

DoReJit_RestartEE(t) ==
    /\ pc[t] = "drj_restart"
    /\ threadStoreHolder' = NoThread
    /\ loc' = [loc EXCEPT ![t].trace = Append(@, "resume")]
    /\ pc' = [pc EXCEPT ![t] = "drj_report"]
    /\ UNCHANGED <<tiered, s_csGlobalRequest, m_crstTable, controllerLock, tables, code>>

\* The end of DoReJit, with no lock held: a failure in hr is reported to the
\* profiler with ReJITError, a body this thread published (fNotify) with
\* ReJITCompilationFinished, and the call returns.
DoReJit_ReportReJITError(t) ==
    /\ pc[t] = "drj_report"
    /\ pc' = [pc EXCEPT ![t] = "idle"]
    /\ loc' = [loc EXCEPT ![t] = NoLocals]
    /\ UNCHANGED <<tiered, locks, tables, code>>

ReJitNext ==
    \/ Debugger_ActivatePatch
    \/ Debugger_DeactivatePatch
    \/ \E t \in Threads :
        \/ Publish_Call(t)
        \/ Publish_EnterLock(t)
        \/ Publish_DoJumpStampIfNecessary(t)
        \/ Publish_ControllerLock(t)
        \/ Publish_JumpStampNativeCode(t)
        \/ Publish_SetNativeCode(t)
        \/ Publish_LeaveLock(t)
        \/ Publish_ReportError(t)
        \/ Call_AddILCodeVersion(t)
        \/ Call_SetRejitState(t)
        \/ Engine_Return(t)
        \/ DoReJit_Call(t)
        \/ DoReJit_SuspendEE(t)
        \/ DoReJit_TableLock(t)
        \/ DoReJit_UnderLock(t)
        \/ DoReJit_RestartEE(t)
        \/ DoReJit_ReportReJITError(t)

ReJitSpec == Init /\ [][ReJitNext]_vars

\* ------------------------------------------------------------------------
\* Vocabulary of the properties
\* ------------------------------------------------------------------------
Count(tr, e) == Cardinality({i \in 1 .. Len(tr) : tr[i] = e})

ILRecords(k) == m_ilCodeVersioningStateMap[k].nodes

LiveILRecords(k) ==
    {i \in 1 .. Len(ILRecords(k)) : ILRecords(k)[i].state # "kStateReverted"}

RequestedILRecords(k) ==
    {i \in 1 .. Len(ILRecords(k)) : ILRecords(k)[i].state = "kStateRequested"}

\* A RequestReJIT call is about to return after its last item, a valid IL
\* method, went through BindILVersion, and no allocation failed in the call.
ReturnsAfterBinding(t) ==
    /\ pc[t] = "rrj_ret"
    /\ loc[t].item \in ValidKeys
    /\ Count(loc[t].trace, "bind") >= 1
    /\ ~loc[t].oom

NoCompiledCode(k) == \A m \in Methods : KeyOfMethod(m) = k => m_pNativeCode[m] = NullCode

\* The lock a thread is blocked on, by the step it is about to take.
WaitsForLock(t) ==
    CASE pc[t] \in {"rrj_bind", "pub_enter", "act_lock", "act_lock_suspended"} -> m_crstTable
      [] pc[t] = "pub_stamp" -> controllerLock
      [] OTHER -> NoThread

RECURSIVE WaitChainReaches(_, _, _)
WaitChainReaches(from, to, n) ==
    /\ n > 0
    /\ from # NoThread
    /\ \/ WaitsForLock(from) = to
       \/ WaitChainReaches(WaitsForLock(from), to, n - 1)

\* The steps at which a thread calls out: the error callback of the
\* requester, and the compiler.
ReportPcs == {"rrj_report", "pub_report"}

CallOutPcs == ReportPcs \cup {"opt_compile"}

\* No report lies between a suspension and its resumption.
ReportsOutsideSuspension(tr) ==
    \A j \in 1 .. Len(tr) :
        tr[j] = "report" =>
            Count(SubSeq(tr, 1, j), "suspend") = Count(SubSeq(tr, 1, j), "resume")

C2_BindLeavesOneRequestedRecord ==
    \A t \in ProfilerThreads :
        ReturnsAfterBinding(t) =>
            /\ Cardinality(RequestedILRecords(loc[t].item)) = 1
            /\ LiveILRecords(loc[t].item) = RequestedILRecords(loc[t].item)

\* ------------------------------------------------------------------------
\* C3
\* ------------------------------------------------------------------------
\* C3: at no time are two threads both inside the body of RequestReJIT or
\* RequestRevert: the thread inside owns the global request lock, so a
\* second request sees all of the changes of the first or none.
C3_RequestsMutuallyExclusive ==
    /\ \A t \in ProfilerThreads : pc[t] # "idle" => s_csGlobalRequest = t
    /\ \A t1, t2 \in ProfilerThreads : pc[t1] # "idle" /\ pc[t2] # "idle" => t1 = t2

\* One thread is binding under the table lock while the other one cannot
\* enter either operation.
C3_Witness ==
    \E t1, t2 \in ProfilerThreads :
        /\ t1 # t2
        /\ pc[t1] = "rrj_locked"
        /\ pc[t2] = "idle"
        /\ ~ENABLED RequestReJIT_Enter(t2)
        /\ ~ENABLED RequestRevert_Enter(t2)

\* ------------------------------------------------------------------------
\* C4
\* ------------------------------------------------------------------------
\* A thread that takes the global request lock holds neither a table lock
\* nor the controller lock, and a thread that takes a table lock does not
\* hold the controller lock.
LockOrderStep ==
    \A t \in Threads :
        /\ (s_csGlobalRequest' = t /\ s_csGlobalRequest # t) =>
               (m_crstTable # t /\ controllerLock # t)
        /\ (m_crstTable' = t /\ m_crstTable # t) => controllerLock # t

NoLockDeadlock ==
    \A t \in Threads : ~WaitChainReaches(t, t, Cardinality(Threads))

C6_ValidItemBoundAfterFailedItem ==
    \A t \in ProfilerThreads :
        (ReturnsAfterBinding(t) /\ loc[t].nFailed >= 1 /\ loc[t].nReported = loc[t].nFailed)
            => LiveILRecords(loc[t].item) # {}

\* ------------------------------------------------------------------------
\* C7
\* ------------------------------------------------------------------------
\* C7: RequestReJIT returns a failure for the whole call only when an
\* allocation failed.
C7_FailureOnlyOnOutOfMemory ==
    \A t \in ProfilerThreads :
        (pc[t] = "rrj_ret" /\ FAILED(loc[t].hr)) => loc[t].oom

C10_UncompiledMethodGetsRequestedVersion ==
    \A t \in ProfilerThreads :
        (ReturnsAfterBinding(t) /\ NoCompiledCode(loc[t].item)) =>
            /\ ~FAILED(loc[t].hr)
            /\ Count(loc[t].trace, "suspend") = 0
            /\ Cardinality(RequestedILRecords(loc[t].item)) = 1

\* ------------------------------------------------------------------------
\* C11
\* ------------------------------------------------------------------------
Published(m) == codeBytes[m_pNativeCode[m]]

\* C11: RequestReJIT for the compiled non-generic method goes through
\* exactly one suspension and one resumption, and leaves the method stamped
\* to the prestub: its entry bytes are the jump to the prestub and the saved
\* bytes are the bytes its entry had before.
C11_CompiledMethodStampedInOneSuspension ==
    \A t \in ProfilerThreads :
        (ReturnsAfterBinding(t) /\ loc[t].item = "A" /\ ~NoCompiledCode("A")) =>
            /\ Count(loc[t].trace, "suspend") = 1
            /\ Count(loc[t].trace, "resume") = 1
            /\ m_methodDescVersioningStateMap["a"].jumpStamp = "JumpStampToPrestub"
            /\ EntryBytes(Published("a")) = JumpTo("prestub")
            /\ m_methodDescVersioningStateMap["a"].m_rgSavedCode = OriginalCode

\* ------------------------------------------------------------------------
\* C12
\* ------------------------------------------------------------------------
\* The state of the IL version that is current for the key.
CurrentRejitState(k) ==
    GetRejitState(m_ilCodeVersioningStateMap,
                  GetActiveILCodeVersion(m_ilCodeVersioningStateMap, k))

\* A RequestRevert call is about to return, and the last element of its
\* arrays named the valid key of loc[t].item.
RevertReturnsFor(t) == pc[t] = "rv_ret" /\ loc[t].item \in ValidKeys

\* C12: after RequestRevert returns for a key whose current IL version is
\* Requested, GettingParameters or Active, the request has succeeded, no
\* record of the key is live any more, and every method of the key has no
\* jump stamp and its original entry bytes.
C12_RevertRestoresStampedMethods ==
    \A t \in ProfilerThreads :
        (RevertReturnsFor(t) /\ CurrentRejitState(loc[t].item) # "kStateReverted") =>
            /\ ~FAILED(loc[t].hrStatus)
            /\ LiveILRecords(loc[t].item) = {}
            /\ \A m \in Methods :
                   KeyOfMethod(m) = loc[t].item =>
                       /\ m_methodDescVersioningStateMap[m].jumpStamp = "JumpStampNone"
                       /\ m_pNativeCode[m] # NullCode =>
                              EntryBytes(Published(m)) = OriginalCode

\* ------------------------------------------------------------------------
\* C13
\* ------------------------------------------------------------------------
\* C13: RequestRevert for a key that no rejit request was ever made for
\* answers "no active rejit request found" for that element.
C13_RevertOfUnrequestedKeyNotFound ==
    \A t \in ProfilerThreads :
        (RevertReturnsFor(t) /\ ILRecords(loc[t].item) = <<>>) =>
            loc[t].hrStatus = "CORPROF_E_ACTIVE_REJIT_REQUEST_NOT_FOUND"

\* ------------------------------------------------------------------------
\* C14, C15, C16
\* ------------------------------------------------------------------------
\* The fetch of the rejit parameters is made by DoReJitIfNecessaryWorker
\* past its fast path.  No thread gets past the fast path, because the
\* domain never holds an ILCodeVersioningState: the claims about the fetch
\* have no state to be checked in.
DoReJitIfNecessaryWorkerNeverEntered ==
    /\ GetNonDefaultILVersionCount(m_ilCodeVersioningStateMap) = 0
    /\ \A t \in Threads : pc[t] # "drj_worker"

\* ------------------------------------------------------------------------
\* C17 to C20: the jump-stamp engine
\* ------------------------------------------------------------------------
UndoReturned(t) ==
    pc[t] = "eng_called" /\ loc[t].op = "UndoJumpStampNativeCode" /\ loc[t].hr = "S_OK"

\* The code a body shows when it holds the bytes of value and the
\* breakpoints of body.
BodyWith(body, value) ==
    [mem |-> [i \in 1 .. JumpStubSize |->
                 IF body.opcode[i] # NoPatch THEN X86_INSTR_INT3 ELSE value[i]],
     opcode |-> [i \in 1 .. JumpStubSize |->
                    IF body.opcode[i] # NoPatch THEN value[i] ELSE NoPatch]]

\* C17: when the stamp of a method has been undone, after the stamp and
\* with or without a change of the jump's target in between, the method is
\* not stamped and the first JumpStubSize bytes of its published body are the
\* original bytes, each byte under a breakpoint of the debugger being the byte
\* the breakpoint keeps.
C17_UndoRestoresOriginalBytes ==
    \A t \in EngineCallers :
        UndoReturned(t) =>
            /\ m_methodDescVersioningStateMap[loc[t].m].jumpStamp = "JumpStampNone"
            /\ EntryBytes(Published(loc[t].m)) = OriginalCode
            /\ Published(loc[t].m) = BodyWith(Published(loc[t].m), OriginalCode)

\* The stamp of a method whose jump had been pointed at the active body is
\* undone while a breakpoint lies on the first byte.
C17_Witness ==
    \E t \in EngineCallers :
        /\ UndoReturned(t)
        /\ loc[t].found = "JumpStampToActiveVersion"
        /\ Published(loc[t].m).opcode[1] # NoPatch
        /\ Published(loc[t].m).mem[1] = X86_INSTR_INT3

SavedCode(m) == m_methodDescVersioningStateMap[m].m_rgSavedCode

Stamped(m) == m_methodDescVersioningStateMap[m].jumpStamp # "JumpStampNone"

\* C18, as the specification states it: the first byte of the saved code is
\* not zero exactly when the method is stamped.
C18_SavedCodeIffStamped ==
    \A m \in Methods : (SavedCode(m)[1] # 0) <=> Stamped(m)

\* C18, amended: the first byte of the saved code of a stamped method is
\* neither zero nor the jump; the saved code is written before the stamp can
\* fail and is not cleared when the stamp is undone, so that an unstamped
\* method holds either zeroes or the bytes of its original code.
C18_StampedMethodHasSavedCode ==
    \A m \in Methods :
        /\ Stamped(m) => SavedCode(m)[1] \notin {0, X86_INSTR_JMP_REL32}
        /\ ~Stamped(m) => SavedCode(m) \in {ZeroBytes, OriginalCode}

\* A method is stamped, and the stamp of another has been undone.
C18_Witness ==
    \E t \in EngineCallers, m \in Methods :
        /\ UndoReturned(t) /\ loc[t].m # m
        /\ ~Stamped(loc[t].m) /\ SavedCode(loc[t].m)[1] # 0
        /\ Stamped(m) /\ SavedCode(m)[1] # 0

\* A thread is about to decide on the stamp of a method that another thread
\* has stamped.
ArrivesSecond(t) ==
    /\ pc[t] = "pub_locked"
    /\ m_methodDescVersioningStateMap[loc[t].m].jumpStamp = "JumpStampToPrestub"

\* C19: when a thread comes to stamp the first body of a method that
\* another thread has stamped already, its call returns at once with
\* success, and the bytes of the code, the saved code and the jump-stamp
\* state are what they were.
C19_SecondStamperChangesNothing ==
    [][\A t \in JitThreads :
          (ArrivesSecond(t) /\ pc'[t] # pc[t]) =>
              /\ pc'[t] = "pub_publish"
              /\ loc'[t].hr = "S_OK"
              /\ codeBytes' = codeBytes
              /\ m_methodDescVersioningStateMap' = m_methodDescVersioningStateMap]_vars

\* The second thread has returned with success; the body the first thread
\* published is stamped and its own body is not.
C19_Witness ==
    \E t1 \in JitThreads, t2 \in JitThreads :
        /\ t1 # t2
        /\ pc[t2] = "pub_publish" /\ loc[t2].hr = "S_OK"
        /\ m_pNativeCode[loc[t2].m] = <<loc[t2].m, t1>>
        /\ m_methodDescVersioningStateMap[loc[t2].m].jumpStamp = "JumpStampToPrestub"
        /\ EntryBytes(Published(loc[t2].m)) = JumpTo("prestub")
        /\ EntryBytes(codeBytes[loc[t2].pCode]) = OriginalCode

BatchReturned(t) == pc[t] = "eng_batched" /\ loc[t].op = "BatchUpdateJumpStamps"

\* The methods of the two lists of a batch that are not in the state the
\* batch was to bring them to.
NotTransitioned(batch) ==
    {i \in 1 .. Len(batch.undoMethods) :
        m_methodDescVersioningStateMap[batch.undoMethods[i]].jumpStamp # "JumpStampNone"}
    \cup
    {Len(batch.undoMethods) + i : i \in
        {j \in 1 .. Len(batch.preStubMethods) :
            m_methodDescVersioningStateMap[batch.preStubMethods[j]].jumpStamp
                # "JumpStampToPrestub"}}

\* C20: when BatchUpdateJumpStamps returns, either the recording of an
\* error has failed for want of memory, or it returns success, every method
\* of the undo list but the ones that failed is not stamped, every method of
\* the other list but the ones that failed is stamped to the prestub, and the
\* error list holds one record for each method that failed.
C20_BatchRecordsEachFailure ==
    \A t \in EngineCallers :
        BatchReturned(t) =>
            \/ loc[t].hr = "E_OUTOFMEMORY"
            \/ /\ loc[t].hr = "S_OK"
               /\ Len(loc[t].errorRecords) = Cardinality(NotTransitioned(loc[t].batch))
               /\ Len(loc[t].trace) + Len(loc[t].errorRecords)
                      = Len(loc[t].batch.undoMethods) + Len(loc[t].batch.preStubMethods)

\* The statuses thread t hands to the requester's error callback where it
\* stands, or holds in an error record or in the status of an item.
StatusesTold(t) ==
    (IF pc[t] \in {"rrj_report", "pub_report"}
        \/ (pc[t] = "drj_report" /\ FAILED(loc[t].hr))
     THEN {loc[t].hr} ELSE {})
    \cup {loc[t].hrStatus}
    \cup {loc[t].errorRecords[i].hrStatus : i \in 1 .. Len(loc[t].errorRecords)}

\* C21: CORPROF_E_RUNTIME_SUSPEND_REQUIRED is never handed to the
\* requester's error callback and never stored in an error record or in the
\* status of an item, by RequestReJIT, RequestRevert, the publishing of a
\* body or DoReJit.
C21_SuspendRequiredNeverTold ==
    \A t \in Threads : "CORPROF_E_RUNTIME_SUSPEND_REQUIRED" \notin StatusesTold(t)

\* Thread t has come back from a call of the code version manager.
VersionCallReturned(t, name) ==
    pc[t] = "eng_called" /\ loc[t].op = name /\ ~FAILED(loc[t].hr)

\* The number of records that were added to IL version v for method m.
NativeVersionsAdded(v, m) ==
    Cardinality({i \in 1 .. Len(m_methodDescVersioningStateMap[m].nodes) :
                    m_methodDescVersioningStateMap[m].nodes[i].ilId = v.id})

FirstAddedIsActive(t) ==
    GetActiveNativeCodeVersion(m_methodDescVersioningStateMap, loc[t].il, loc[t].m)
        = loc[t].native

\* C22 as it is stated: when AddNativeCodeVersion succeeds for an IL version
\* and a method that had no native version added before, the record it
\* returns is the active child of the IL version for the method.
C22_FirstAddedIsActiveOnAnyILVersion ==
    \A t \in EngineCallers :
        (VersionCallReturned(t, "AddNativeCodeVersion")
         /\ NativeVersionsAdded(loc[t].il, loc[t].m) = 1) => FirstAddedIsActive(t)

\* C22, amended: when AddNativeCodeVersion succeeds for an IL version record
\* (not the implicit default IL version) and a method that had no native
\* version added before, the record it returns is the active child of the IL
\* version for the method; on the implicit default IL version the implicit
\* default native version stays the active child.
C22_FirstAddedIsActive ==
    \A t \in EngineCallers :
        (VersionCallReturned(t, "AddNativeCodeVersion")
         /\ NativeVersionsAdded(loc[t].il, loc[t].m) = 1) =>
            IF loc[t].il.kind = "Explicit" THEN FirstAddedIsActive(t)
            ELSE GetActiveNativeCodeVersion(m_methodDescVersioningStateMap, loc[t].il,
                                            loc[t].m) = SyntheticNativeCodeVersion(loc[t].m)

C22_Witness ==
    \E t \in EngineCallers :
        /\ VersionCallReturned(t, "AddNativeCodeVersion")
        /\ NativeVersionsAdded(loc[t].il, loc[t].m) = 1
        /\ loc[t].il.kind = "Explicit"
        /\ FirstAddedIsActive(t)

\* The native versions of method m under IL version v that are marked as
\* the active child, the implicit default native version among them.
ActiveChildren(v, m) ==
    LET vs == GetNativeCodeVersions(m_methodDescVersioningStateMap, m, v)
    IN  {vs[i] : i \in {j \in 1 .. Len(vs) :
                            IsActiveChildVersion(m_methodDescVersioningStateMap, vs[j])}}

ILVersionsOfMethod(m) ==
    LET vs == GetILCodeVersions(m_ilCodeVersioningStateMap, KeyOfMethod(m))
    IN  {vs[i] : i \in 1 .. Len(vs)}

\* C23: whenever the table lock is free, at most one native version of each
\* method under each IL version, the implicit default native version
\* counted, is marked as the active child.
C23_AtMostOneActiveChild ==
    m_crstTable = NoThread =>
        \A m \in Methods : \A v \in ILVersionsOfMethod(m) :
            Cardinality(ActiveChildren(v, m)) <= 1

\* SetActiveNativeCodeVersion has moved the mark from the implicit default
\* native version to a record, and the table lock is free again.
C23_Witness ==
    /\ m_crstTable = NoThread
    /\ \E m \in Methods :
         /\ m_methodDescVersioningStateMap[m].present
         /\ ~m_methodDescVersioningStateMap[m].defaultActive
         /\ Cardinality(ActiveChildren(SyntheticILCodeVersion(KeyOfMethod(m)), m)) = 1
         /\ Len(GetNativeCodeVersions(m_methodDescVersioningStateMap, m,
                                      SyntheticILCodeVersion(KeyOfMethod(m)))) = 3

\* The entry point that is stored in the record of native version id of m.
EntryPoint(mdMap, m, id) ==
    mdMap[m].nodes[NativeNodeIndex(mdMap, ExplicitNativeCodeVersion(m, id))].code

NativeVersionIds(m) ==
    {m_methodDescVersioningStateMap[m].nodes[i].id :
        i \in 1 .. Len(m_methodDescVersioningStateMap[m].nodes)}

\* The threads that are back from SetNativeCodeInterlocked on a record.
BackFromSet(m, id) ==
    {t \in JitThreads : /\ pc[t] = "cas_called"
                        /\ loc[t].native = ExplicitNativeCodeVersion(m, id)}

\* C24: an entry point that is stored in a native version record never
\* changes, and of the threads that store a body in the same record with
\* the expected value NULL, one and no more has its body stored: when
\* threads are back from the call the record holds a body, at most one of
\* them is told that it has stored, and the record holds the body of that one.
C24_EntryPointSetOnce ==
    [][\A m \in Methods : \A id \in NativeVersionIds(m) :
          /\ EntryPoint(m_methodDescVersioningStateMap, m, id) # NullCode =>
                 EntryPoint(m_methodDescVersioningStateMap', m, id)
                     = EntryPoint(m_methodDescVersioningStateMap, m, id)
          /\ BackFromSet(m, id)' # {} =>
                 /\ EntryPoint(m_methodDescVersioningStateMap', m, id) # NullCode
                 /\ Cardinality({t \in BackFromSet(m, id)' : loc'[t].swapped}) <= 1
                 /\ \A t \in BackFromSet(m, id)' :
                        loc'[t].swapped =>
                            EntryPoint(m_methodDescVersioningStateMap', m, id)
                                = loc'[t].pCode]_vars

\* Two threads are back from a race on the same record: one has stored.
C24_Witness ==
    \E m \in Methods : \E id \in NativeVersionIds(m) :
        /\ BackFromSet(m, id) = JitThreads
        /\ Cardinality({t \in JitThreads : loc[t].swapped}) = 1

\* In this step AddILCodeVersion fails on thread t for want of memory for
\* the IL version record: the versioning state of the key was there or was
\* made, and the record was not.
RecordAllocationFails(t) ==
    /\ pc[t] = "idle" /\ pc'[t] = "eng_called"
    /\ loc'[t].op = "AddILCodeVersion"
    /\ loc'[t].hr = "E_OUTOFMEMORY"
    /\ m_ilCodeVersioningStateMap'[KeyOfMethod(loc'[t].m)].present

\* C25 as it is stated: when the allocation of the IL version record fails
\* in AddILCodeVersion, the map of IL versioning states is as it was before
\* the call.
C25_FailedAddLeavesMapUnchanged ==
    [][\A t \in EngineCallers :
          RecordAllocationFails(t) =>
              m_ilCodeVersioningStateMap' = m_ilCodeVersioningStateMap]_vars

\* C25, amended: when the allocation of the IL version record fails in
\* AddILCodeVersion, the call returns E_OUTOFMEMORY, the list of IL versions
\* and the active IL version of every key are as they were before the call
\* and no record is linked; the map is as it was, or holds one new
\* versioning state, with no record, for the key of the call.
C25_FailedAddLinksNothing ==
    [][\A t \in EngineCallers :
          RecordAllocationFails(t) =>
              /\ loc'[t].il = NullILCodeVersion
              /\ \A k \in ValidKeys :
                    /\ GetILCodeVersions(m_ilCodeVersioningStateMap', k)
                           = GetILCodeVersions(m_ilCodeVersioningStateMap, k)
                    /\ GetActiveILCodeVersion(m_ilCodeVersioningStateMap', k)
                           = GetActiveILCodeVersion(m_ilCodeVersioningStateMap, k)
                    /\ \/ m_ilCodeVersioningStateMap'[k] = m_ilCodeVersioningStateMap[k]
                       \/ /\ k = KeyOfMethod(loc'[t].m)
                          /\ ~m_ilCodeVersioningStateMap[k].present
                          /\ m_ilCodeVersioningStateMap'[k] = ILCodeVersioningState(k)]_vars

\* The allocation of the record has failed for a key that has a record
\* from an earlier call.
C25_Witness ==
    \E t \in EngineCallers :
        /\ pc[t] = "eng_called" /\ loc[t].op = "AddILCodeVersion"
        /\ loc[t].hr = "E_OUTOFMEMORY"
        /\ \E k \in ValidKeys :
             /\ k # KeyOfMethod(loc[t].m)
             /\ Len(m_ilCodeVersioningStateMap[k].nodes) = 1
        /\ m_ilCodeVersioningStateMap[KeyOfMethod(loc[t].m)].present
        /\ m_ilCodeVersioningStateMap[KeyOfMethod(loc[t].m)].nodes = <<>>

\* The Tier-1 native versions of method m.
Tier1Versions(m) ==
    {ExplicitNativeCodeVersion(m, m_methodDescVersioningStateMap[m].nodes[i].id) :
        i \in {j \in 1 .. Len(m_methodDescVersioningStateMap[m].nodes) :
                  m_methodDescVersioningStateMap[m].nodes[j].tier = "Tier1"}}

\* How many times the queue of methods to optimize holds a version of m.
QueuedTimes(m) ==
    Cardinality({i \in 1 .. Len(m_methodsToOptimize) : m_methodsToOptimize[i].method = m})

\* The threads that hold a version of m to put it in the queue, or have
\* taken it from the queue to compile and activate it.
HoldingVersionOf(m) ==
    {t \in Threads : /\ pc[t] \in {"ap_enqueue", "opt_compile", "act_lock", "act_locked",
                                    "act_suspend", "act_lock_suspended",
                                    "act_locked_suspended", "act_restart"}
                     /\ loc[t].native.method = m}

\* In this step a call of AsyncPromoteMethodToTier1 on thread t returns
\* because it finds a Tier-1 version of the method.
ReturnsAlreadyPromoted(t) ==
    /\ pc[t] = "ap_locked" /\ pc'[t] = "idle"
    /\ Tier1Versions(loc[t].m) # {}

\* The call that made the Tier-1 version of m has put it in the queue, or
\* has found no memory to do so, and has not asked for a worker yet.
PromoterPastEnqueue(m) ==
    \E t \in PromotingThreads : pc[t] \in {"ap_enroll", "async"} /\ loc[t].m = m

\* C26 as it is stated, for a second call that is made while the first is
\* between its insertion in the queue and its return: there is one Tier-1
\* version of the method and the queue holds it once.
C26_SecondCallFindsOneWorkItem ==
    [][\A t \in PromotingThreads :
          (ReturnsAlreadyPromoted(t) /\ PromoterPastEnqueue(loc[t].m)) =>
              /\ Cardinality(Tier1Versions(loc[t].m)) = 1
              /\ QueuedTimes(loc[t].m) = 1]_vars

\* C26, amended: however often and from however many threads
\* AsyncPromoteMethodToTier1 is called for a method, the method has at most
\* one Tier-1 version and that version is at most once in the queue or in
\* the hands of a thread; a call that finds the Tier-1 version changes
\* neither the versions nor the queue nor the work items. There is exactly
\* one when no allocation of the first call has failed.
C26_AtMostOneTier1Version ==
    [][/\ \A m \in TieredMethods :
            /\ Cardinality(Tier1Versions(m))' <= 1
            /\ (QueuedTimes(m) + Cardinality(HoldingVersionOf(m)))' <= 1
       /\ \A t \in PromotingThreads :
            ReturnsAlreadyPromoted(t) =>
                UNCHANGED <<m_methodDescVersioningStateMap, m_methodsToOptimize, workItems,
                            m_countOptimizationThreadsRunning>>]_vars

\* A second call is about to find the Tier-1 version that the first call,
\* which has not returned yet, has put in the queue.
C26_Witness ==
    \E t1, t2 \in PromotingThreads :
        /\ t1 # t2
        /\ pc[t1] = "ap_enroll" /\ pc[t2] = "ap_locked" /\ loc[t2].m = loc[t1].m
        /\ Tier1Versions(loc[t1].m) = {loc[t1].native}
        /\ m_methodsToOptimize = <<loc[t1].native>>

\* ------------------------------------------------------------------------
\* C27
\* ------------------------------------------------------------------------
\* The Tier-1 version of m is the active child of the active IL version of
\* m and holds the body the background compilation made, which is not the
\* body the method was published with.
Activated(m) ==
    \E nv \in Tier1Versions(m) :
        /\ GetActiveNativeCodeVersion(m_methodDescVersioningStateMap,
               GetActiveILCodeVersion(m_ilCodeVersioningStateMap, KeyOfMethod(m)), m) = nv
        /\ EntryPoint(m_methodDescVersioningStateMap, m, nv.id) = <<m, BackgroundThread>>
        /\ EntryPoint(m_methodDescVersioningStateMap, m, nv.id) # m_pNativeCode[m]

\* The call count of m has reached the threshold: a thread is in
\* AsyncPromoteMethodToTier1 for m.
ThresholdReached(m) ==
    \E t \in PromotingThreads : pc[t] = "ap_locked" /\ loc[t].m = m

NoCompilationStarted ==
    \A t \in Threads : pc'[t] = "opt_compile" => pc[t] = "opt_compile"

\* In this step no thread enters the loop of OptimizeMethods from outside.
NoWorkerStarted ==
    \A t \in Threads : (pc[t] = "idle" => pc'[t] # "opt_loop")

MalformedUnloadingOrDynamic == {"nullmod", "badtok", "unloading", "dynamic"}

\* C29: in RequestReJIT, an element with a malformed module or token, with
\* a module being unloaded or with a dynamic module is reported once, with
\* a failure code, and the loop goes on to the next element without
\* binding an IL version: the tables and the code are as they were.  Only
\* the other elements that resolve to no method or to an IL method reach
\* the binding.  An element that is skipped in silence (one that resolves
\* to a method that is not IL) causes no report and changes neither the
\* tables nor the code.
C29_ValidationPerItem ==
    [][\A t \in ProfilerThreads :
          /\ (pc[t] = "rrj_loop" /\ loc'[t].item \in MalformedUnloadingOrDynamic) =>
                 /\ pc'[t] = "rrj_report"
                 /\ FAILED(loc'[t].hrStatus)
                 /\ loc'[t].nReported = loc[t].nReported
                 /\ UNCHANGED <<tables, code>>
          /\ (pc[t] = "rrj_loop" /\ pc'[t] = "rrj_report") =>
                 loc'[t].item \in MalformedUnloadingOrDynamic
          /\ (pc[t] = "rrj_report" /\ pc'[t] # "rrj_report") =>
                 /\ pc'[t] = "rrj_loop"
                 /\ loc'[t].nReported = loc[t].nReported + 1
                 /\ loc'[t].i = loc[t].i + 1
                 /\ UNCHANGED <<tables, code>>
          /\ (pc[t] = "rrj_loop" /\ pc'[t] = "rrj_bind") =>
                 /\ loc'[t].item \in Items \ MalformedUnloadingOrDynamic
                 /\ IsIL(LookupMethodDef(loc'[t].item))
          /\ (pc[t] = "rrj_loop" /\ pc'[t] = "rrj_loop" /\ loc'[t].i = loc[t].i + 1) =>
                 /\ loc'[t].nReported = loc[t].nReported
                 /\ loc'[t].trace = Append(loc[t].trace, "validate")
                 /\ UNCHANGED <<tables, code>>]_vars

\* A request has reported its first element and skipped its second in
\* silence.
C29_Witness ==
    \E t \in ProfilerThreads :
        /\ pc[t] = "rrj_loop" /\ loc[t].i = 2
        /\ loc[t].trace = <<"validate", "report", "validate">>
        /\ loc[t].nReported = 1

\* ------------------------------------------------------------------------
\* C30
\* ------------------------------------------------------------------------
\* The changes of the jump-stamp state of a method that are allowed.
JumpStampEdges ==
    {<<"JumpStampNone", "JumpStampToPrestub">>,
     <<"JumpStampToPrestub", "JumpStampToActiveVersion">>,
     <<"JumpStampToPrestub", "JumpStampNone">>,
     <<"JumpStampToActiveVersion", "JumpStampNone">>}

\* C30: the jump-stamp state of a method changes only from None to
\* ToPrestub, from ToPrestub to ToActiveVersion, and from ToPrestub or
\* ToActiveVersion to None; never from None to ToActiveVersion and never
\* from ToActiveVersion to ToPrestub.
C30_JumpStampEdges ==
    [][\A m \in Methods :
          m_methodDescVersioningStateMap'[m].jumpStamp
                  # m_methodDescVersioningStateMap[m].jumpStamp =>
              <<m_methodDescVersioningStateMap[m].jumpStamp,
                m_methodDescVersioningStateMap'[m].jumpStamp>> \in JumpStampEdges]_vars

\* A method that was stamped to the prestub and then to its active body
\* has had its stamp taken away.
C30_Witness ==
    \E t \in Threads :
        /\ pc[t] = "eng_called" /\ loc[t].op = "UndoJumpStampNativeCode"
        /\ loc[t].found = "JumpStampToActiveVersion" /\ loc[t].hr = "S_OK"
        /\ m_methodDescVersioningStateMap[loc[t].m].jumpStamp = "JumpStampNone"

\* ------------------------------------------------------------------------
\* C31
\* ------------------------------------------------------------------------
\* The entry bytes of the published body of m, as FirstCodeByteAddr shows
\* them.
PublishedEntryBytes(m) == EntryBytes(codeBytes[m_pNativeCode[m]])

\* C31: whenever the table lock is free, the jump-stamp state of a method
\* with a published body agrees with the entry bytes of that body, seen
\* through the debugger's patches: None exactly when they are the bytes the
\* compiler made, ToPrestub exactly when they are the jump to the prestub,
\* ToActiveVersion exactly when they are the jump to the rejitted code.
C31_StateAgreesWithEntryBytes ==
    m_crstTable = NoThread =>
        \A m \in Methods :
            m_pNativeCode[m] # NullCode =>
                /\ m_methodDescVersioningStateMap[m].jumpStamp = "JumpStampNone"
                       <=> PublishedEntryBytes(m) = OriginalCode
                /\ m_methodDescVersioningStateMap[m].jumpStamp = "JumpStampToPrestub"
                       <=> PublishedEntryBytes(m) = JumpTo("prestub")
                /\ m_methodDescVersioningStateMap[m].jumpStamp = "JumpStampToActiveVersion"
                       <=> PublishedEntryBytes(m) = JumpTo("rejitted")

\* ------------------------------------------------------------------------
\* C32
\* ------------------------------------------------------------------------
\* In this step thread t comes back from a direct call of the named function
\* of the jump-stamp engine.
EngineCallReturns(t, name) ==
    pc[t] = "idle" /\ pc'[t] = "eng_called" /\ loc'[t].op = name

\* C32: when JumpStampNativeCode (called for a body that is about to be
\* published), UpdateJumpTarget or UndoJumpStampNativeCode returns a failure,
\* the code bytes and the jump-stamp state of the method are what they were
\* before the call.
C32_FailedStampChangesNothing ==
    [][\A t \in Threads :
          /\ (pc[t] = "pub_stamping" /\ pc'[t] = "pub_publish" /\ FAILED(loc'[t].hr)) =>
                 /\ codeBytes' = codeBytes
                 /\ m_methodDescVersioningStateMap'[loc[t].m].jumpStamp
                        = m_methodDescVersioningStateMap[loc[t].m].jumpStamp
          /\ ((\/ EngineCallReturns(t, "UpdateJumpTarget")
               \/ EngineCallReturns(t, "UndoJumpStampNativeCode"))
              /\ loc'[t].hr # "S_OK") =>
                 /\ codeBytes' = codeBytes
                 /\ m_methodDescVersioningStateMap'[loc'[t].m].jumpStamp
                        = m_methodDescVersioningStateMap[loc'[t].m].jumpStamp]_vars

\* UpdateJumpTarget or UndoJumpStampNativeCode has come back with a failure
\* from a method that is stamped to the prestub, and it is still stamped so.
C32_Witness ==
    \E t \in Threads :
        /\ pc[t] = "eng_called"
        /\ loc[t].op \in {"UpdateJumpTarget", "UndoJumpStampNativeCode"}
        /\ loc[t].hr \in {"CORPROF_E_RUNTIME_SUSPEND_REQUIRED", "E_ACCESSDENIED"}
        /\ m_methodDescVersioningStateMap[loc[t].m].jumpStamp = loc[t].found
        /\ PublishedEntryBytes(loc[t].m) = JumpTo("prestub")

\* ------------------------------------------------------------------------
\* C33
\* ------------------------------------------------------------------------
\* Thread t is in a turn of the loop of DoReJit, under the table lock, for
\* a method whose published body is aligned and has an activated patch of
\* the debugger on its first byte.
TurnOnPatchedBody(t) ==
    /\ pc[t] = "drj_locked" /\ pc'[t] # "drj_locked"
    /\ IS_ALIGNED(m_pNativeCode[loc[t].m])
    /\ codeBytes[m_pNativeCode[loc[t].m]].opcode[1] # NoPatch

PublicationCompleted(m) ==
    /\ m_pNativeCode[m] # NullCode
    /\ \A t \in Threads :
           pc[t] \in {"pub_enter", "pub_locked", "pub_stamp", "pub_stamping",
                      "pub_publish", "pub_leave", "pub_report"} => loc[t].m # m

PendingOrActiveILRecords(k) ==
    {i \in 1 .. Len(ILRecords(k)) :
        ILRecords(k)[i].state \in {"kStateRequested", "kStateGettingReJITParameters",
                                   "kStateActive"}}

\* C34: a RequestReJIT that races with the first publication of the same
\* method is never lost: when the request has bound the method and done its
\* batches, without a failed allocation, and the publication has completed,
\* the published code is stamped to the prestub and the key of the method
\* has an IL version that is requested, fetching its parameters, or active.
C34_RacingRequestIsNotLost ==
    \A t \in ProfilerThreads :
        (ReturnsAfterBinding(t) /\ loc[t].item = "A" /\ PublicationCompleted("a")) =>
            /\ m_methodDescVersioningStateMap["a"].jumpStamp = "JumpStampToPrestub"
            /\ PublishedEntryBytes("a") = JumpTo("prestub")
            /\ PendingOrActiveILRecords("A") # {}

\* ------------------------------------------------------------------------
\* C35
\* ------------------------------------------------------------------------
\* Thread t ends a turn of the loop of DoReJit and leaves the table lock.
DoReJitTurn(t) == pc[t] = "drj_locked" /\ pc'[t] # "drj_locked"

\* The body stored in the active native version of the IL version that
\* thread t rejits, NullCode while no thread has stored one.
WinningEntryPoint(t) ==
    LET nv == GetActiveNativeCodeVersion(m_methodDescVersioningStateMap, loc[t].il, loc[t].m)
    IN  IF nv.kind = "Unknown" THEN NullCode
        ELSE GetNativeCode(m_methodDescVersioningStateMap, m_pNativeCode, nv)

\* Threads t1 and t2 have both come out of the loop of DoReJit for the same
\* IL version and method.
RacedInDoReJit(t1, t2) ==
    /\ t1 # t2
    /\ pc[t1] = "drj_report" /\ pc[t2] = "drj_report"
    /\ loc[t1].il = loc[t2].il /\ loc[t1].m = loc[t2].m

\* C35 as stated: of the threads that run DoReJit together for one IL
\* version and method, exactly one redirects the stamp and stores its body,
\* and every thread returns that body.
C35_EveryRacingThreadReturnsTheWinner ==
    \A t1, t2 \in JitThreads :
        RacedInDoReJit(t1, t2) =>
            /\ loc[t1].fNotify # loc[t2].fNotify
            /\ loc[t1].ret = WinningEntryPoint(t1) /\ loc[t2].ret = WinningEntryPoint(t1)
            /\ WinningEntryPoint(t1) # NullCode

\* C35 amended: a turn of DoReJit changes the stamp or the code bytes only
\* when no body is stored in the native version yet, and then it moves the
\* stamp from the prestub to the active version, stores the body of its own
\* thread and returns it; once a body is stored, every later turn leaves the
\* stamp and the stored body alone and returns the stored body, so at most
\* one thread redirects the stamp.  A thread whose own turn fails (no memory
\* for the native version or for the jump, or a page that cannot be made
\* writable) returns NULL with the failure in hr.  A turn that finds the IL
\* version reverted changes neither the stamp nor the code bytes.
C35_OneThreadRetargetsAndOthersReturnItsCode ==
    [][\A t \in JitThreads :
          DoReJitTurn(t) =>
              LET m == loc[t].m
                  stamp == m_methodDescVersioningStateMap[m].jumpStamp
                  stampAfter == m_methodDescVersioningStateMap'[m].jumpStamp
                  stored == WinningEntryPoint(t)
                  storedAfter == WinningEntryPoint(t)'
              IN  /\ (stampAfter # stamp \/ codeBytes' # codeBytes) =>
                         /\ stored = NullCode
                         /\ stamp = "JumpStampToPrestub"
                         /\ stampAfter = "JumpStampToActiveVersion"
                         /\ storedAfter = loc[t].pCode
                         /\ loc'[t].fNotify /\ loc'[t].ret = loc[t].pCode
                  /\ stored # NullCode =>
                         /\ stampAfter = stamp /\ codeBytes' = codeBytes
                         /\ storedAfter = stored
                         /\ ~loc'[t].fNotify /\ loc'[t].ret = stored
                  /\ loc'[t].fNotify => stampAfter # stamp
                  /\ loc'[t].ret # NullCode => loc'[t].ret = storedAfter
                  /\ (loc'[t].ret = NullCode /\ pc'[t] # "drj_suspend") =>
                         /\ FAILED(loc'[t].hr)
                         /\ loc'[t].hr # "CORPROF_E_RUNTIME_SUSPEND_REQUIRED"
                  /\ GetRejitState(m_ilCodeVersioningStateMap, loc[t].il) = "kStateReverted" =>
                         stampAfter = stamp /\ codeBytes' = codeBytes]_vars

\* Two threads have raced in DoReJit for one IL version and method: one has
\* redirected the stamp and stored its body, the other found the body
\* stored and returns it.
C35_Witness ==
    \E t1, t2 \in JitThreads :
        /\ RacedInDoReJit(t1, t2)
        /\ loc[t1].fNotify /\ ~loc[t2].fNotify
        /\ loc[t1].ret = loc[t1].pCode /\ loc[t2].ret = loc[t1].pCode
        /\ WinningEntryPoint(t2) = loc[t1].pCode
        /\ m_methodDescVersioningStateMap[loc[t1].m].jumpStamp = "JumpStampToActiveVersion"

\* ------------------------------------------------------------------------
\* C37
\* ------------------------------------------------------------------------
\* C37: when the first body of a method is published and no rejit was ever
\* requested for its key (the key has no IL version record), the code is
\* not stamped: the jump-stamp state of the method is None and the entry
\* bytes of the published body are the bytes the compiler made.
C37_UnrequestedMethodIsNotStamped ==
    \A m \in Methods :
        (m_pNativeCode[m] # NullCode /\ ILRecords(KeyOfMethod(m)) = <<>>) =>
            /\ m_methodDescVersioningStateMap[m].jumpStamp = "JumpStampNone"
            /\ PublishedEntryBytes(m) = OriginalCode

\* ------------------------------------------------------------------------
\* C38
\* ------------------------------------------------------------------------
\* Thread t is in the loop of OptimizeMethods: it takes a method from the
\* queue, compiles it or activates it.
InOptimizeMethods(t) ==
    pc[t] \in {"opt_loop", "opt_compile", "act_lock", "act_locked", "act_suspend",
               "act_lock_suspended", "act_locked_suspended", "act_restart"}

\* The threads that are about to queue a work item for the count they hold,
\* or to give the count back after the queueing failed.
Scheduling == {t \in Threads : pc[t] \in {"async", "async_failed"}}

\* The optimization that is left to the callback of the delay timer.
LeftToTimer == IF m_hasMethodsToOptimizeAfterDelay THEN 1 ELSE 0

\* C38: the count of optimization threads is always 0 or 1, and at most one
\* thread runs the loop of OptimizeMethods or is scheduled to run it: every
\* thread in the loop, every work item in the thread pool, every thread
\* that is queueing one and the optimization left to the timer callback is
\* counted.
C38_AtMostOneWorker ==
    /\ m_countOptimizationThreadsRunning \in {0, 1}
    /\ Cardinality({t \in Threads : InOptimizeMethods(t)}) + workItems
           + Cardinality(Scheduling) + LeftToTimer <= m_countOptimizationThreadsRunning

\* A second promotion has put its method in the queue while the worker
\* compiles: the promoting thread comes to enrol with the count at 1.
C38_Witness ==
    /\ m_countOptimizationThreadsRunning = 1
    /\ m_methodsToOptimize # <<>>
    /\ \E t \in Threads : pc[t] = "opt_compile"
    /\ \E t \in Threads : pc[t] = "ap_enroll"

\* ------------------------------------------------------------------------
\* C39
\* ------------------------------------------------------------------------
\* In this step every version that a thread has made and holds for the
\* queue is put in the queue.
CreatedVersionIsQueued ==
    \A t \in Threads :
        (pc[t] = "ap_enqueue" /\ pc'[t] # "ap_enqueue") =>
            \E i \in 1 .. Len(m_methodsToOptimize') : m_methodsToOptimize'[i] = loc[t].native

\* The count of optimization threads is held by a thread in the loop of
\* OptimizeMethods, a work item, a thread that queues one, or the
\* optimization left to the callback of the pending delay timer.
CountIsHeld ==
    /\ m_countOptimizationThreadsRunning
           = Cardinality({t \in Threads : InOptimizeMethods(t)}) + workItems
             + Cardinality(Scheduling) + LeftToTimer
    /\ m_hasMethodsToOptimizeAfterDelay => m_methodsPendingCountingForTier1

\* The queueing of a work item to the thread pool has failed, and the
\* thread is about to give the count back.
QueueUserWorkItemFailed == \E t \in Threads : pc[t] = "async_failed"

Suspensions(t) ==
    Cardinality({i \in 1 .. Len(loc[t].trace) : loc[t].trace[i] = "suspend"})

====
